---- MODULE Spec2Model ----
(***************************************************************************)
(* A model of the NES emulator core: the controller shift register, the    *)
(* PPU register file and its scanline/dot clock, the CPU bus that routes   *)
(* addresses to them, and the CPU instruction step with its NMI poll.      *)
(*                                                                         *)
(* The emulator state is the four objects the console owns (cpu_state,     *)
(* ppu_state, controller, rom).  The code's methods are operators from a   *)
(* machine record m = [cpu, ppu, ctl, fault] to a machine record, so that  *)
(* a handler that calls other handlers is the composition of their         *)
(* operators.  A Rust panic is the fault "panic": the first fault is kept  *)
(* and the machine takes no further step.                                  *)
(***************************************************************************)
EXTENDS Integers, Sequences, FiniteSets, TLC

VARIABLES
    cpu_state,    \* CpuState: registers, status, stack pointer, pc, latches, ram
    ppu_state,    \* PpuState: registers, OAM, NMI token, dot and scanline counters
    controller,   \* Controller: strobe, cur_flag, controller_state
    rom,          \* ROM: prg_rom image, chr_rom, mirroring (immutable after load)
    build,        \* "debug" (overflow checks on) or "release" (wrapping arithmetic)
    obs           \* what the caller of the last operation observed

vars == <<cpu_state, ppu_state, controller, rom, build, obs>>

(***************************************************************************)
(* Bytes, words and bit operations                                         *)
(***************************************************************************)
Byte == 0..255

Pow2(n) == 2 ^ n

\* bit i of v (0 or 1)
BitAt(v, i) == (v \div Pow2(i)) % 2

RECURSIVE BitAndN(_, _, _)
BitAndN(a, b, n) ==
    IF n = 0 THEN 0
    ELSE (a % 2) * (b % 2) + 2 * BitAndN(a \div 2, b \div 2, n - 1)

\* a & b on 16-bit operands
BitAnd(a, b) == BitAndN(a, b, 16)

\* v with bit i set to the boolean on
SetBit(v, i, on) == v - BitAt(v, i) * Pow2(i) + (IF on THEN Pow2(i) ELSE 0)

\* u8 wrapping arithmetic
WrapAdd8(a, b) == (a + b) % 256
WrapSub8(a, b) == (a - b + 256) % 256
\* u16 wrapping arithmetic
WrapAdd16(a, b) == (a + b) % 65536

\* An array that starts zeroed is kept sparse: only its non-zero cells are stored.
Get(f, i) == IF i \in DOMAIN f THEN f[i] ELSE 0

EmptyArray == [x \in {} |-> 0]

\* (@@ makes the result an explicit function, whatever the number of cells put)
Put(f, i, v) ==
    IF v = 0
    THEN EmptyArray @@ [x \in DOMAIN f \ {i} |-> f[x]]
    ELSE (i :> v) @@ f

\* the first fault of a step is the one that ends it
Panic(m) == IF m.fault = "none" THEN [m EXCEPT !.fault = "panic"] ELSE m

(***************************************************************************)
(* Controller (controller.rs)                                              *)
(***************************************************************************)
controller_new == [strobe |-> FALSE, cur_flag |-> 1, controller_state |-> 0]

set_controller_state(c, state) == [c EXCEPT !.controller_state = state]

\* ControllerState::contains: every bit of flag is in state
contains(state, flag) == BitAnd(state, flag) = flag

\* variant of Controller::read: an exhausted port reads 0
controller_read_exhausted_zero(c) ==
    IF c.cur_flag = 0
    THEN [ctl |-> c, v |-> 0]
    ELSE [ctl |-> IF ~c.strobe
                  THEN [c EXCEPT !.cur_flag = (c.cur_flag * 2) % 256]
                  ELSE c,
          v   |-> IF contains(c.controller_state, c.cur_flag) THEN 1 ELSE 0]

controller_read(c) ==
    IF c.cur_flag = 0
    THEN [ctl |-> c, v |-> 1]
    ELSE [ctl |-> IF ~c.strobe
                  THEN [c EXCEPT !.cur_flag = (c.cur_flag * 2) % 256]
                  ELSE c,
          v   |-> IF contains(c.controller_state, c.cur_flag) THEN 1 ELSE 0]

controller_peek(c) ==
    IF c.cur_flag = 0 THEN 1
    ELSE IF contains(c.controller_state, c.cur_flag) THEN 1 ELSE 0

\* variant of Controller::write: the shift position is left where it is
controller_write_strobe_only(c, data) ==
    [c EXCEPT !.strobe = (data % 2 = 1)]

\* variant of Controller::write: the strobe is never raised
controller_write_no_strobe(c, data) ==
    [c EXCEPT !.cur_flag = 1, !.strobe = FALSE]

controller_write(c, data) ==
    [c EXCEPT !.cur_flag = 1, !.strobe = (data % 2 = 1)]

(***************************************************************************)
(* PPU registers (ppu_state.rs)                                            *)
(***************************************************************************)
GENERATE_NMI_BIT == 7
VRAM_ADDR_INC_BIT == 2
SHOW_SPRITES_BIT == 4
SPRITE_ZERO_HIT_BIT == 6
VBLANK_STARTED_BIT == 7

is_generate_nmi(ctrl) == BitAt(ctrl, GENERATE_NMI_BIT) = 1
get_vram_addr_inc_value(ctrl) == IF BitAt(ctrl, VRAM_ADDR_INC_BIT) = 1 THEN 32 ELSE 1
is_show_sprites(mask) == BitAt(mask, SHOW_SPRITES_BIT) = 1
is_vblank_started(status) == BitAt(status, VBLANK_STARTED_BIT) = 1
set_vblank_started(status, on) == SetBit(status, VBLANK_STARTED_BIT, on)
set_sprite_zero_hit(status, on) == SetBit(status, SPRITE_ZERO_HIT_BIT, on)

PpuScroll_new == [cam_position_x |-> 0, cam_position_y |-> 0, is_set_position_x |-> TRUE]

PpuScroll_write(s, byte) ==
    [cam_position_x    |-> IF s.is_set_position_x THEN byte ELSE s.cam_position_x,
     cam_position_y    |-> IF s.is_set_position_x THEN s.cam_position_y ELSE byte,
     is_set_position_x |-> ~s.is_set_position_x]

PpuScroll_reset(s) == [s EXCEPT !.is_set_position_x = TRUE]

\* data = (lsb, msb)
PpuAddr_new == [lsb |-> 0, msb |-> 0, is_set_msb |-> TRUE]

\* variant of PpuAddr::write: the high byte is stored unmasked
PpuAddr_write_unmasked(a, byte) ==
    [lsb        |-> IF a.is_set_msb THEN a.lsb ELSE byte,
     msb        |-> IF a.is_set_msb THEN byte ELSE a.msb,
     is_set_msb |-> ~a.is_set_msb]

PpuAddr_write(a, byte) ==
    [lsb        |-> IF a.is_set_msb THEN a.lsb ELSE byte,
     msb        |-> IF a.is_set_msb THEN byte % 64 ELSE a.msb,
     is_set_msb |-> ~a.is_set_msb]

PpuAddr_read(a) == a.msb * 256 + a.lsb

\* variant of PpuAddr::increment: the carry of the low byte is dropped
PpuAddr_increment_no_carry(a, inc) ==
    [a EXCEPT !.lsb = (a.lsb + inc) % 256]

PpuAddr_increment(a, inc) ==
    LET result == PpuAddr_read(a) + inc
    IN  [a EXCEPT !.msb = (result \div 256) % 64, !.lsb = result % 256]

PpuAddr_reset(a) == [a EXCEPT !.is_set_msb = TRUE]

PpuState_new ==
    [oam_data           |-> EmptyArray,
     ppuctrl            |-> 0,
     ppumask            |-> 0,
     ppustatus          |-> 0,
     oamaddr            |-> 0,
     ppuscroll          |-> PpuScroll_new,
     ppuaddr            |-> PpuAddr_new,
     ppudata            |-> 0,
     nmi_interrupt_poll |-> FALSE,
     cycle_counter      |-> 0,
     cur_scanline       |-> 0]

(***************************************************************************)
(* PPU bus (ppu_bus.rs).  PpuBus::new builds a bus whose vram and          *)
(* palette_table are fresh zeroed arrays owned by the bus value itself.    *)
(***************************************************************************)
\* variant of PpuBus::mirror_vram_addr: the two mirroring modes are swapped
mirror_vram_addr_swapped(m, addr) ==
    LET vram_index      == addr - \h2000
        nametable_index == vram_index \div \h400
        mirror_nametable_index ==
            IF rom.mirroring = "Vertical"
            THEN (IF nametable_index \in {0, 1} THEN 0 ELSE 1)
            ELSE (IF nametable_index \in {0, 2} THEN 0 ELSE 1)
    IN  [m |-> m,
         v |-> (vram_index % \h400) + mirror_nametable_index * \h400]

mirror_vram_addr(m, addr) ==
    LET vram_index      == addr - \h2000
        nametable_index == vram_index \div \h400
        known           == rom.mirroring \in {"Horizontal", "Vertical"}
                           /\ nametable_index \in 0..3
        mirror_nametable_index ==
            IF rom.mirroring = "Horizontal"
            THEN (IF nametable_index \in {0, 1} THEN 0 ELSE 1)
            ELSE (IF nametable_index \in {0, 2} THEN 0 ELSE 1)
    IN  [m |-> IF known THEN m ELSE Panic(m),
         v |-> (vram_index % \h400) + mirror_nametable_index * \h400]

\* read through a bus made for this one access: its vram is the zeroed array
ppu_bus_read_byte(m, index) ==
    IF index \in 0..\h1FFF
    THEN IF index < rom.chr_len
         THEN [m |-> m, v |-> Get(rom.chr_rom, index)]
         ELSE [m |-> Panic(m), v |-> 0]
    ELSE IF index \in \h2000..\h2FFF
    THEN [m |-> mirror_vram_addr(m, index).m, v |-> 0]
    ELSE IF index \in \h3000..\h3EFF
    THEN [m |-> mirror_vram_addr(m, index - \h1000).m, v |-> 0]
    ELSE [m |-> Panic(m), v |-> 0]       \* 0x3F00..=0x3FFF: todo!()

\* write into a bus made for this one access: the written array is dropped with it
ppu_bus_write_byte(m, index, value) ==
    IF index \in 0..\h1FFF
    THEN Panic(m)
    ELSE IF index \in \h2000..\h2FFF
    THEN mirror_vram_addr(m, index).m
    ELSE IF index \in \h3000..\h3EFF
    THEN mirror_vram_addr(m, index - \h1000).m
    ELSE IF index \in \h3F00..\h3FFF
    THEN m
    ELSE Panic(m)

(***************************************************************************)
(* PPU actions (ppu_action.rs)                                             *)
(***************************************************************************)
DOTS_PER_SCANLINE == 341
VBLANK_SCANLINE == 241
SCANLINES_PER_FRAME == 262

is_sprite_zero_hit(p) ==
    LET y == Get(p.oam_data, 0)
        x == Get(p.oam_data, 3)
    IN  (y = p.cur_scanline) /\ (x <= p.cycle_counter) /\ is_show_sprites(p.ppumask)

\* variant of the PPU advance: entering vblank latches the NMI whatever PPUCTRL says
update_ppu_always_latch(p) ==
    IF p.cycle_counter < DOTS_PER_SCANLINE
    THEN [ppu |-> p, new_frame |-> FALSE]
    ELSE
      LET p1 == IF is_sprite_zero_hit(p)
                THEN [p EXCEPT !.ppustatus = set_sprite_zero_hit(p.ppustatus, TRUE)]
                ELSE p
          p2 == [p1 EXCEPT !.cycle_counter = p1.cycle_counter - DOTS_PER_SCANLINE,
                           !.cur_scanline = p1.cur_scanline + 1]
      IN  IF p2.cur_scanline = VBLANK_SCANLINE
          THEN [ppu |-> [p2 EXCEPT
                           !.ppustatus = set_sprite_zero_hit(
                                             set_vblank_started(p2.ppustatus, TRUE), FALSE),
                           !.nmi_interrupt_poll = TRUE],
                new_frame |-> FALSE]
          ELSE IF p2.cur_scanline >= SCANLINES_PER_FRAME
          THEN [ppu |-> [p2 EXCEPT
                           !.cur_scanline = 0,
                           !.nmi_interrupt_poll = FALSE,
                           !.ppustatus = set_sprite_zero_hit(
                                             set_vblank_started(p2.ppustatus, FALSE), FALSE)],
                new_frame |-> TRUE]
          ELSE [ppu |-> p2, new_frame |-> FALSE]

\* variant of the PPU advance: the frame wrap keeps a pending NMI
update_ppu_keep_nmi(p) ==
    IF p.cycle_counter < DOTS_PER_SCANLINE
    THEN [ppu |-> p, new_frame |-> FALSE]
    ELSE
      LET p1 == IF is_sprite_zero_hit(p)
                THEN [p EXCEPT !.ppustatus = set_sprite_zero_hit(p.ppustatus, TRUE)]
                ELSE p
          p2 == [p1 EXCEPT !.cycle_counter = p1.cycle_counter - DOTS_PER_SCANLINE,
                           !.cur_scanline = p1.cur_scanline + 1]
      IN  IF p2.cur_scanline = VBLANK_SCANLINE
          THEN [ppu |-> [p2 EXCEPT
                           !.ppustatus = set_sprite_zero_hit(
                                             set_vblank_started(p2.ppustatus, TRUE), FALSE),
                           !.nmi_interrupt_poll =
                               IF is_generate_nmi(p2.ppuctrl) THEN TRUE
                               ELSE p2.nmi_interrupt_poll],
                new_frame |-> FALSE]
          ELSE IF p2.cur_scanline >= SCANLINES_PER_FRAME
          THEN [ppu |-> [p2 EXCEPT
                           !.cur_scanline = 0,
                           !.ppustatus = set_sprite_zero_hit(
                                             set_vblank_started(p2.ppustatus, FALSE), FALSE)],
                new_frame |-> TRUE]
          ELSE [ppu |-> p2, new_frame |-> FALSE]

\* variant of the PPU advance: a scanline ends only past dot 341
update_ppu_late_scanline_end(p) ==
    IF p.cycle_counter <= DOTS_PER_SCANLINE
    THEN [ppu |-> p, new_frame |-> FALSE]
    ELSE
      LET p1 == IF is_sprite_zero_hit(p)
                THEN [p EXCEPT !.ppustatus = set_sprite_zero_hit(p.ppustatus, TRUE)]
                ELSE p
          p2 == [p1 EXCEPT !.cycle_counter = p1.cycle_counter - DOTS_PER_SCANLINE,
                           !.cur_scanline = p1.cur_scanline + 1]
      IN  IF p2.cur_scanline = VBLANK_SCANLINE
          THEN [ppu |-> [p2 EXCEPT
                           !.ppustatus = set_sprite_zero_hit(
                                             set_vblank_started(p2.ppustatus, TRUE), FALSE),
                           !.nmi_interrupt_poll =
                               IF is_generate_nmi(p2.ppuctrl) THEN TRUE
                               ELSE p2.nmi_interrupt_poll],
                new_frame |-> FALSE]
          ELSE IF p2.cur_scanline >= SCANLINES_PER_FRAME
          THEN [ppu |-> [p2 EXCEPT
                           !.cur_scanline = 0,
                           !.nmi_interrupt_poll = FALSE,
                           !.ppustatus = set_sprite_zero_hit(
                                             set_vblank_started(p2.ppustatus, FALSE), FALSE)],
                new_frame |-> TRUE]
          ELSE [ppu |-> p2, new_frame |-> FALSE]

\* variant of the PPU advance: the frame wrap leaves the vblank flag as it is
update_ppu_wrap_keeps_vblank(p) ==
    IF p.cycle_counter < DOTS_PER_SCANLINE
    THEN [ppu |-> p, new_frame |-> FALSE]
    ELSE
      LET p1 == IF is_sprite_zero_hit(p)
                THEN [p EXCEPT !.ppustatus = set_sprite_zero_hit(p.ppustatus, TRUE)]
                ELSE p
          p2 == [p1 EXCEPT !.cycle_counter = p1.cycle_counter - DOTS_PER_SCANLINE,
                           !.cur_scanline = p1.cur_scanline + 1]
      IN  IF p2.cur_scanline = VBLANK_SCANLINE
          THEN [ppu |-> [p2 EXCEPT
                           !.ppustatus = set_sprite_zero_hit(
                                             set_vblank_started(p2.ppustatus, TRUE), FALSE),
                           !.nmi_interrupt_poll =
                               IF is_generate_nmi(p2.ppuctrl) THEN TRUE
                               ELSE p2.nmi_interrupt_poll],
                new_frame |-> FALSE]
          ELSE IF p2.cur_scanline >= SCANLINES_PER_FRAME
          THEN [ppu |-> [p2 EXCEPT
                           !.cur_scanline = 0,
                           !.nmi_interrupt_poll = FALSE,
                           !.ppustatus = set_sprite_zero_hit(p2.ppustatus, FALSE)],
                new_frame |-> TRUE]
          ELSE [ppu |-> p2, new_frame |-> FALSE]

\* returns the new PpuState and the "on new frame" flag
update_ppu_and_check_for_new_frame(p) ==
    IF p.cycle_counter < DOTS_PER_SCANLINE
    THEN [ppu |-> p, new_frame |-> FALSE]
    ELSE
      LET p1 == IF is_sprite_zero_hit(p)
                THEN [p EXCEPT !.ppustatus = set_sprite_zero_hit(p.ppustatus, TRUE)]
                ELSE p
          p2 == [p1 EXCEPT !.cycle_counter = p1.cycle_counter - DOTS_PER_SCANLINE,
                           !.cur_scanline = p1.cur_scanline + 1]
      IN  IF p2.cur_scanline = VBLANK_SCANLINE
          THEN [ppu |-> [p2 EXCEPT
                           !.ppustatus = set_sprite_zero_hit(
                                             set_vblank_started(p2.ppustatus, TRUE), FALSE),
                           !.nmi_interrupt_poll =
                               IF is_generate_nmi(p2.ppuctrl) THEN TRUE
                               ELSE p2.nmi_interrupt_poll],
                new_frame |-> FALSE]
          ELSE IF p2.cur_scanline >= SCANLINES_PER_FRAME
          THEN [ppu |-> [p2 EXCEPT
                           !.cur_scanline = 0,
                           !.nmi_interrupt_poll = FALSE,
                           !.ppustatus = set_sprite_zero_hit(
                                             set_vblank_started(p2.ppustatus, FALSE), FALSE)],
                new_frame |-> TRUE]
          ELSE [ppu |-> p2, new_frame |-> FALSE]

\* variant of write_ppuctrl: the latch does not look at the vblank flag
write_ppuctrl_any_time(p, data) ==
    LET prev_is_generate_nmi == is_generate_nmi(p.ppuctrl)
        cur_is_generate_nmi  == is_generate_nmi(data)
    IN  [p EXCEPT !.ppuctrl = data,
                  !.nmi_interrupt_poll =
                      IF ~prev_is_generate_nmi /\ cur_is_generate_nmi
                      THEN TRUE ELSE p.nmi_interrupt_poll]

write_ppuctrl(p, data) ==
    LET prev_is_generate_nmi == is_generate_nmi(p.ppuctrl)
        is_vblank            == is_vblank_started(p.ppustatus)
        cur_is_generate_nmi  == is_generate_nmi(data)
    IN  [p EXCEPT !.ppuctrl = data,
                  !.nmi_interrupt_poll =
                      IF ~prev_is_generate_nmi /\ cur_is_generate_nmi /\ is_vblank
                      THEN TRUE ELSE p.nmi_interrupt_poll]

write_ppumask(p, data) == [p EXCEPT !.ppumask = data]

\* variant of read_ppustatus: the address latch is left as it is
read_ppustatus_keep_addr_latch(p) ==
    [ppu |-> [p EXCEPT !.ppustatus = set_vblank_started(p.ppustatus, FALSE),
                       !.ppuscroll = PpuScroll_reset(p.ppuscroll)],
     v   |-> p.ppustatus]

\* returns the new PpuState and the status byte as it was
read_ppustatus(p) ==
    [ppu |-> [p EXCEPT !.ppustatus = set_vblank_started(p.ppustatus, FALSE),
                       !.ppuscroll = PpuScroll_reset(p.ppuscroll),
                       !.ppuaddr = PpuAddr_reset(p.ppuaddr)],
     v   |-> p.ppustatus]

write_oamaddr(p, data) == [p EXCEPT !.oamaddr = data]

write_oamdata(p, data) ==
    [p EXCEPT !.oam_data = Put(p.oam_data, p.oamaddr, data),
              !.oamaddr = WrapAdd8(p.oamaddr, 1)]

\* the n bytes of data from index i on, written in order; n is a power of two
RECURSIVE write_oamdma_from(_, _, _, _)
RECURSIVE write_oamdma_rest(_, _, _, _)
\* the second half of the bytes, written onto the PPU state the first half left
\* (the test has the first half computed before the second begins)
write_oamdma_rest(first, data, i, n) ==
    IF first.oamaddr \in Byte THEN write_oamdma_from(first, data, i, n) ELSE first

write_oamdma_from(p, data, i, n) ==
    IF n = 1 THEN write_oamdata(p, data[i])
    ELSE write_oamdma_rest(write_oamdma_from(p, data, i, n \div 2),
                           data, i + n \div 2, n \div 2)

\* variant of PpuAction::write_oamdma: the transfer starts at OAM index 0
write_oamdma_from_zero(p, data) ==
    [write_oamdma_from([p EXCEPT !.oamaddr = 0], data, 1, Len(data)) EXCEPT !.oamaddr = p.oamaddr]

write_oamdma(p, data) == write_oamdma_from(p, data, 1, Len(data))

read_oamdata(p) == Get(p.oam_data, p.oamaddr)

write_ppuscroll(p, data) == [p EXCEPT !.ppuscroll = PpuScroll_write(p.ppuscroll, data)]

write_ppuaddr(p, data) == [p EXCEPT !.ppuaddr = PpuAddr_write(p.ppuaddr, data)]

read_ppudata(m) ==
    LET addr   == PpuAddr_read(m.ppu.ppuaddr)
        result == m.ppu.ppudata
        r      == ppu_bus_read_byte(m, addr)
        inc    == get_vram_addr_inc_value(m.ppu.ppuctrl)
    IN  [m |-> [r.m EXCEPT !.ppu.ppudata = r.v,
                           !.ppu.ppuaddr = PpuAddr_increment(m.ppu.ppuaddr, inc)],
         v |-> result]

write_ppudata(m, data) ==
    LET addr == PpuAddr_read(m.ppu.ppuaddr)
        m1   == ppu_bus_write_byte(m, addr, data)
        inc  == get_vram_addr_inc_value(m.ppu.ppuctrl)
    IN  [m1 EXCEPT !.ppu.ppuaddr = PpuAddr_increment(m.ppu.ppuaddr, inc)]

(***************************************************************************)
(* CPU state (cpu_state.rs)                                                *)
(***************************************************************************)
CARRY_BIT == 0
ZERO_BIT == 1
INT_DISABLE_BIT == 2
DECIMAL_BIT == 3
BRK_BIT == 4
ALWAYS_BIT == 5
OVERFLOW_BIT == 6
NEGATIVE_BIT == 7

STACK_POINTER_INIT == \hFD
PROGRAM_COUNTER_INIT == \h600

CpuState_new ==
    [ram                |-> EmptyArray,
     reg_a              |-> 0,
     reg_x              |-> 0,
     reg_y              |-> 0,
     status             |-> Pow2(ALWAYS_BIT) + Pow2(INT_DISABLE_BIT),
     stack_pointer      |-> STACK_POINTER_INIT,
     program_counter    |-> PROGRAM_COUNTER_INIT,
     page_cross_flag    |-> FALSE,
     branch_flag        |-> FALSE,
     irq_interrupt_poll |-> FALSE,
     cycle_counter      |-> 0]

(***************************************************************************)
(* CPU bus (cpu_bus.rs).  Every access builds a CpuBus value, whose        *)
(* apuio_reg is a fresh zeroed array owned by that value.                  *)
(***************************************************************************)
RAM_END == \h1FFF
PPU_REG_START == \h2000
PPU_REG_END == \h3FFF
APUIO_START == \h4000
APUIO_END == \h401F
PRG_ROM_START == \h8000
PRG_ROM_END == \hFFFF
\* variant of RAM_MASK: the address is not folded into the 2 KiB
RAM_MASK_unfolded == \h1FFF

RAM_MASK == \h7FF
PPU_MASK == \h7
OAMDMA_ADDR == \h4014
CONTROLLER_ADDR == \h4016

\* u16 addition as the build performs it: a checked add panics, a release add wraps
Add16(m, a, b) ==
    IF a + b <= \hFFFF THEN [m |-> m, v |-> a + b]
    ELSE IF build = "debug" THEN [m |-> Panic(m), v |-> a]
    ELSE [m |-> m, v |-> (a + b) % 65536]

\* u16 subtraction as the build performs it
Sub16(m, a, b) ==
    IF a >= b THEN [m |-> m, v |-> a - b]
    ELSE IF build = "debug" THEN [m |-> Panic(m), v |-> a]
    ELSE [m |-> m, v |-> (a - b + 65536) % 65536]

\* rom.prg_rom[index] after the 16 KiB mirroring; an index past the image panics
read_prg_rom(m, index) ==
    LET i0 == index - PRG_ROM_START
        i1 == IF rom.prg_len = \h4000 /\ i0 >= \h4000 THEN i0 % \h4000 ELSE i0
    IN  IF i1 < rom.prg_len
        THEN [m |-> m, v |-> Get(rom.prg_rom, i1)]
        ELSE [m |-> Panic(m), v |-> 0]

\* returns the machine after the read's side effects and the byte read
read_byte(m, index) ==
    IF index <= RAM_END
    THEN [m |-> m, v |-> Get(m.cpu.ram, BitAnd(index, RAM_MASK))]
    ELSE IF index \in PPU_REG_START..PPU_REG_END
    THEN LET masked_index == BitAnd(index, PPU_MASK)
         IN  IF masked_index = 2
             THEN LET r == read_ppustatus(m.ppu)
                  IN  [m |-> [m EXCEPT !.ppu = r.ppu], v |-> r.v]
             ELSE IF masked_index = 4
             THEN [m |-> m, v |-> read_oamdata(m.ppu)]
             ELSE IF masked_index = 7
             THEN read_ppudata(m)
             ELSE [m |-> Panic(m), v |-> 0]          \* write-only registers
    ELSE IF index = CONTROLLER_ADDR
    THEN LET r == controller_read(m.ctl)
         IN  [m |-> [m EXCEPT !.ctl = r.ctl], v |-> r.v]
    ELSE IF index \in APUIO_START..APUIO_END
    THEN [m |-> m, v |-> 0]
    ELSE IF index \in PRG_ROM_START..PRG_ROM_END
    THEN read_prg_rom(m, index)
    ELSE [m |-> Panic(m), v |-> 0]                   \* "Cannot read from"

\* the OAMDMA buffer: the n bytes hi+i .. hi+i+n-1 read in order, each read made
\* on the machine the read before it left; n is a power of two
RECURSIVE read_dma_buffer(_, _, _, _)
RECURSIVE dma_rest(_, _, _, _)
dma_first(r) == [m |-> r.m, buf |-> <<r.v>>]

dma_append(first, rest) == [m |-> rest.m, buf |-> first.buf \o rest.buf]

\* a read that panics ends the transfer: the reads after it are not made
dma_rest(first, hi, i, n) ==
    IF first.m.fault # "none" THEN first
    ELSE dma_append(first, read_dma_buffer(first.m, hi, i, n))

read_dma_buffer(m, hi, i, n) ==
    IF n = 1 THEN dma_first(read_byte(m, hi + i))
    ELSE dma_rest(read_dma_buffer(m, hi, i, n \div 2), hi, i + n \div 2, n \div 2)

\* the OAMDMA write once its buffer r is read
dma_transfer(r) ==
    IF r.m.fault # "none" THEN r.m
    ELSE [r.m EXCEPT !.ppu = write_oamdma(r.m.ppu, r.buf)]

write_byte(m, index, value) ==
    IF index <= RAM_END
    THEN [m EXCEPT !.cpu.ram = Put(m.cpu.ram, BitAnd(index, RAM_MASK), value)]
    ELSE IF index \in PPU_REG_START..PPU_REG_END
    THEN LET masked_index == BitAnd(index, PPU_MASK)
         IN  CASE masked_index = 0 -> [m EXCEPT !.ppu = write_ppuctrl(m.ppu, value)]
               [] masked_index = 1 -> [m EXCEPT !.ppu = write_ppumask(m.ppu, value)]
               [] masked_index = 2 -> Panic(m)       \* "PPUSTATUS is read-only"
               [] masked_index = 3 -> [m EXCEPT !.ppu = write_oamaddr(m.ppu, value)]
               [] masked_index = 4 -> [m EXCEPT !.ppu = write_oamdata(m.ppu, value)]
               [] masked_index = 5 -> [m EXCEPT !.ppu = write_ppuscroll(m.ppu, value)]
               [] masked_index = 6 -> [m EXCEPT !.ppu = write_ppuaddr(m.ppu, value)]
               [] masked_index = 7 -> write_ppudata(m, value)
    ELSE IF index = OAMDMA_ADDR
    THEN dma_transfer(read_dma_buffer(m, value * 256, 0, 256))
    ELSE IF index = CONTROLLER_ADDR
    THEN [m EXCEPT !.ctl = controller_write(m.ctl, value)]
    ELSE IF index \in APUIO_START..APUIO_END
    THEN m
    ELSE Panic(m)                                    \* "Attempted write to read only memory"

read_byte_from_pc(m) ==
    LET read_addr == m.cpu.program_counter
        a         == Add16(m, read_addr, 1)
    IN  read_byte([a.m EXCEPT !.cpu.program_counter = a.v], read_addr)

\* (msb << 8) + lsb of two reads made one after the other
Word(lo, hi) == [m |-> hi.m, v |-> hi.v * 256 + lo.v]

\* the read at the address an addition produced
read_at(a) == read_byte(a.m, a.v)

read_two_bytes_msb(lo, index) == Word(lo, read_at(Add16(lo.m, index, 1)))

read_two_bytes(m, index) == read_two_bytes_msb(read_byte(m, index), index)

read_two_bytes_from_pc(m) ==
    LET read_addr == m.cpu.program_counter
        a         == Add16(m, read_addr, 2)
    IN  read_two_bytes([a.m EXCEPT !.cpu.program_counter = a.v], read_addr)

\* CpuBus::peek_byte: a read with no side effects; the PPU registers and the
\* unmapped addresses abort
peek_byte(m, index) ==
    IF index <= RAM_END
    THEN [m |-> m, v |-> Get(m.cpu.ram, BitAnd(index, RAM_MASK))]
    ELSE IF index \in PPU_REG_START..PPU_REG_END
    THEN [m |-> Panic(m), v |-> 0]                   \* "Invalid PPU_REG index"
    ELSE IF index = CONTROLLER_ADDR
    THEN [m |-> m, v |-> controller_peek(m.ctl)]
    ELSE IF index \in APUIO_START..APUIO_END
    THEN [m |-> m, v |-> 0]
    ELSE IF index \in PRG_ROM_START..PRG_ROM_END
    THEN read_prg_rom(m, index)
    ELSE [m |-> Panic(m), v |-> 0]                   \* "Cannot read from"

\* peek_byte at base + offset, a u16 addition
peek_byte_at(a) == IF a.m.fault # "none" THEN a ELSE peek_byte(a.m, a.v)

peek_two_bytes(m, index) ==
    Word(peek_byte(m, index), peek_byte_at(Add16(peek_byte(m, index).m, index, 1)))

\* variant of the page-bound word read: the high byte comes from index + 1, off the page
read_two_page_bytes_unwrapped(m, index) == read_two_bytes(m, index)

read_two_page_bytes_msb(lo, index) ==
    Word(lo, read_byte(lo.m, WrapAdd8(index % 256, 1)))

read_two_page_bytes(m, index) == read_two_page_bytes_msb(read_byte(m, index), index)

(***************************************************************************)
(* Opcode table (cpu/instructions/decode.rs): the 151 official opcode      *)
(* bytes; any other byte is the decode error.                              *)
(***************************************************************************)
decode_opcode(opcode) ==
    CASE opcode = \h69 -> [ok |-> TRUE, opcode |-> "ADC", mode |-> "Immediate", cycles |-> 2]
      [] opcode = \h65 -> [ok |-> TRUE, opcode |-> "ADC", mode |-> "ZeroPage", cycles |-> 3]
      [] opcode = \h75 -> [ok |-> TRUE, opcode |-> "ADC", mode |-> "ZeroPageIndexX", cycles |-> 4]
      [] opcode = \h6D -> [ok |-> TRUE, opcode |-> "ADC", mode |-> "Absolute", cycles |-> 4]
      [] opcode = \h7D -> [ok |-> TRUE, opcode |-> "ADC", mode |-> "AbsoluteIndexX", cycles |-> 4]
      [] opcode = \h79 -> [ok |-> TRUE, opcode |-> "ADC", mode |-> "AbsoluteIndexY", cycles |-> 4]
      [] opcode = \h61 -> [ok |-> TRUE, opcode |-> "ADC", mode |-> "IndirectX", cycles |-> 6]
      [] opcode = \h71 -> [ok |-> TRUE, opcode |-> "ADC", mode |-> "IndirectY", cycles |-> 5]
      [] opcode = \h29 -> [ok |-> TRUE, opcode |-> "AND", mode |-> "Immediate", cycles |-> 2]
      [] opcode = \h25 -> [ok |-> TRUE, opcode |-> "AND", mode |-> "ZeroPage", cycles |-> 3]
      [] opcode = \h35 -> [ok |-> TRUE, opcode |-> "AND", mode |-> "ZeroPageIndexX", cycles |-> 4]
      [] opcode = \h2D -> [ok |-> TRUE, opcode |-> "AND", mode |-> "Absolute", cycles |-> 4]
      [] opcode = \h3D -> [ok |-> TRUE, opcode |-> "AND", mode |-> "AbsoluteIndexX", cycles |-> 4]
      [] opcode = \h39 -> [ok |-> TRUE, opcode |-> "AND", mode |-> "AbsoluteIndexY", cycles |-> 4]
      [] opcode = \h21 -> [ok |-> TRUE, opcode |-> "AND", mode |-> "IndirectX", cycles |-> 6]
      [] opcode = \h31 -> [ok |-> TRUE, opcode |-> "AND", mode |-> "IndirectY", cycles |-> 5]
      [] opcode = \h0A -> [ok |-> TRUE, opcode |-> "ASL", mode |-> "Accumulator", cycles |-> 2]
      [] opcode = \h06 -> [ok |-> TRUE, opcode |-> "ASL", mode |-> "ZeroPage", cycles |-> 5]
      [] opcode = \h16 -> [ok |-> TRUE, opcode |-> "ASL", mode |-> "ZeroPageIndexX", cycles |-> 6]
      [] opcode = \h0E -> [ok |-> TRUE, opcode |-> "ASL", mode |-> "Absolute", cycles |-> 6]
      [] opcode = \h1E -> [ok |-> TRUE, opcode |-> "ASL", mode |-> "AbsoluteIndexX", cycles |-> 7]
      [] opcode = \h10 -> [ok |-> TRUE, opcode |-> "BPL", mode |-> "Relative", cycles |-> 2]
      [] opcode = \h30 -> [ok |-> TRUE, opcode |-> "BMI", mode |-> "Relative", cycles |-> 2]
      [] opcode = \h50 -> [ok |-> TRUE, opcode |-> "BVC", mode |-> "Relative", cycles |-> 2]
      [] opcode = \h70 -> [ok |-> TRUE, opcode |-> "BVS", mode |-> "Relative", cycles |-> 2]
      [] opcode = \h90 -> [ok |-> TRUE, opcode |-> "BCC", mode |-> "Relative", cycles |-> 2]
      [] opcode = \hB0 -> [ok |-> TRUE, opcode |-> "BCS", mode |-> "Relative", cycles |-> 2]
      [] opcode = \hD0 -> [ok |-> TRUE, opcode |-> "BNE", mode |-> "Relative", cycles |-> 2]
      [] opcode = \hF0 -> [ok |-> TRUE, opcode |-> "BEQ", mode |-> "Relative", cycles |-> 2]
      [] opcode = \h24 -> [ok |-> TRUE, opcode |-> "BIT", mode |-> "ZeroPage", cycles |-> 3]
      [] opcode = \h2C -> [ok |-> TRUE, opcode |-> "BIT", mode |-> "Absolute", cycles |-> 4]
      [] opcode = \h00 -> [ok |-> TRUE, opcode |-> "BRK", mode |-> "Implicit", cycles |-> 7]
      [] opcode = \hC9 -> [ok |-> TRUE, opcode |-> "CMP", mode |-> "Immediate", cycles |-> 2]
      [] opcode = \hC5 -> [ok |-> TRUE, opcode |-> "CMP", mode |-> "ZeroPage", cycles |-> 3]
      [] opcode = \hD5 -> [ok |-> TRUE, opcode |-> "CMP", mode |-> "ZeroPageIndexX", cycles |-> 4]
      [] opcode = \hCD -> [ok |-> TRUE, opcode |-> "CMP", mode |-> "Absolute", cycles |-> 4]
      [] opcode = \hDD -> [ok |-> TRUE, opcode |-> "CMP", mode |-> "AbsoluteIndexX", cycles |-> 4]
      [] opcode = \hD9 -> [ok |-> TRUE, opcode |-> "CMP", mode |-> "AbsoluteIndexY", cycles |-> 4]
      [] opcode = \hC1 -> [ok |-> TRUE, opcode |-> "CMP", mode |-> "IndirectX", cycles |-> 6]
      [] opcode = \hD1 -> [ok |-> TRUE, opcode |-> "CMP", mode |-> "IndirectY", cycles |-> 5]
      [] opcode = \hE0 -> [ok |-> TRUE, opcode |-> "CPX", mode |-> "Immediate", cycles |-> 2]
      [] opcode = \hE4 -> [ok |-> TRUE, opcode |-> "CPX", mode |-> "ZeroPage", cycles |-> 3]
      [] opcode = \hEC -> [ok |-> TRUE, opcode |-> "CPX", mode |-> "Absolute", cycles |-> 4]
      [] opcode = \hC0 -> [ok |-> TRUE, opcode |-> "CPY", mode |-> "Immediate", cycles |-> 2]
      [] opcode = \hC4 -> [ok |-> TRUE, opcode |-> "CPY", mode |-> "ZeroPage", cycles |-> 3]
      [] opcode = \hCC -> [ok |-> TRUE, opcode |-> "CPY", mode |-> "Absolute", cycles |-> 4]
      [] opcode = \hC6 -> [ok |-> TRUE, opcode |-> "DEC", mode |-> "ZeroPage", cycles |-> 5]
      [] opcode = \hD6 -> [ok |-> TRUE, opcode |-> "DEC", mode |-> "ZeroPageIndexX", cycles |-> 6]
      [] opcode = \hCE -> [ok |-> TRUE, opcode |-> "DEC", mode |-> "Absolute", cycles |-> 6]
      [] opcode = \hDE -> [ok |-> TRUE, opcode |-> "DEC", mode |-> "AbsoluteIndexX", cycles |-> 7]
      [] opcode = \h49 -> [ok |-> TRUE, opcode |-> "EOR", mode |-> "Immediate", cycles |-> 2]
      [] opcode = \h45 -> [ok |-> TRUE, opcode |-> "EOR", mode |-> "ZeroPage", cycles |-> 3]
      [] opcode = \h55 -> [ok |-> TRUE, opcode |-> "EOR", mode |-> "ZeroPageIndexX", cycles |-> 4]
      [] opcode = \h4D -> [ok |-> TRUE, opcode |-> "EOR", mode |-> "Absolute", cycles |-> 4]
      [] opcode = \h5D -> [ok |-> TRUE, opcode |-> "EOR", mode |-> "AbsoluteIndexX", cycles |-> 4]
      [] opcode = \h59 -> [ok |-> TRUE, opcode |-> "EOR", mode |-> "AbsoluteIndexY", cycles |-> 4]
      [] opcode = \h41 -> [ok |-> TRUE, opcode |-> "EOR", mode |-> "IndirectX", cycles |-> 6]
      [] opcode = \h51 -> [ok |-> TRUE, opcode |-> "EOR", mode |-> "IndirectY", cycles |-> 5]
      [] opcode = \h18 -> [ok |-> TRUE, opcode |-> "CLC", mode |-> "Implicit", cycles |-> 2]
      [] opcode = \h38 -> [ok |-> TRUE, opcode |-> "SEC", mode |-> "Implicit", cycles |-> 2]
      [] opcode = \h58 -> [ok |-> TRUE, opcode |-> "CLI", mode |-> "Implicit", cycles |-> 2]
      [] opcode = \h78 -> [ok |-> TRUE, opcode |-> "SEI", mode |-> "Implicit", cycles |-> 2]
      [] opcode = \hB8 -> [ok |-> TRUE, opcode |-> "CLV", mode |-> "Implicit", cycles |-> 2]
      [] opcode = \hD8 -> [ok |-> TRUE, opcode |-> "CLD", mode |-> "Implicit", cycles |-> 2]
      [] opcode = \hF8 -> [ok |-> TRUE, opcode |-> "SED", mode |-> "Implicit", cycles |-> 2]
      [] opcode = \hE6 -> [ok |-> TRUE, opcode |-> "INC", mode |-> "ZeroPage", cycles |-> 5]
      [] opcode = \hF6 -> [ok |-> TRUE, opcode |-> "INC", mode |-> "ZeroPageIndexX", cycles |-> 6]
      [] opcode = \hEE -> [ok |-> TRUE, opcode |-> "INC", mode |-> "Absolute", cycles |-> 6]
      [] opcode = \hFE -> [ok |-> TRUE, opcode |-> "INC", mode |-> "AbsoluteIndexX", cycles |-> 7]
      [] opcode = \h4C -> [ok |-> TRUE, opcode |-> "JMP", mode |-> "AbsoluteJump", cycles |-> 3]
      [] opcode = \h6C -> [ok |-> TRUE, opcode |-> "JMP", mode |-> "IndirectJump", cycles |-> 5]
      [] opcode = \h20 -> [ok |-> TRUE, opcode |-> "JSR", mode |-> "AbsoluteJump", cycles |-> 6]
      [] opcode = \hA9 -> [ok |-> TRUE, opcode |-> "LDA", mode |-> "Immediate", cycles |-> 2]
      [] opcode = \hA5 -> [ok |-> TRUE, opcode |-> "LDA", mode |-> "ZeroPage", cycles |-> 3]
      [] opcode = \hB5 -> [ok |-> TRUE, opcode |-> "LDA", mode |-> "ZeroPageIndexX", cycles |-> 4]
      [] opcode = \hAD -> [ok |-> TRUE, opcode |-> "LDA", mode |-> "Absolute", cycles |-> 4]
      [] opcode = \hBD -> [ok |-> TRUE, opcode |-> "LDA", mode |-> "AbsoluteIndexX", cycles |-> 4]
      [] opcode = \hB9 -> [ok |-> TRUE, opcode |-> "LDA", mode |-> "AbsoluteIndexY", cycles |-> 4]
      [] opcode = \hA1 -> [ok |-> TRUE, opcode |-> "LDA", mode |-> "IndirectX", cycles |-> 6]
      [] opcode = \hB1 -> [ok |-> TRUE, opcode |-> "LDA", mode |-> "IndirectY", cycles |-> 5]
      [] opcode = \hA2 -> [ok |-> TRUE, opcode |-> "LDX", mode |-> "Immediate", cycles |-> 2]
      [] opcode = \hA6 -> [ok |-> TRUE, opcode |-> "LDX", mode |-> "ZeroPage", cycles |-> 3]
      [] opcode = \hB6 -> [ok |-> TRUE, opcode |-> "LDX", mode |-> "ZeroPageIndexY", cycles |-> 4]
      [] opcode = \hAE -> [ok |-> TRUE, opcode |-> "LDX", mode |-> "Absolute", cycles |-> 4]
      [] opcode = \hBE -> [ok |-> TRUE, opcode |-> "LDX", mode |-> "AbsoluteIndexY", cycles |-> 4]
      [] opcode = \hA0 -> [ok |-> TRUE, opcode |-> "LDY", mode |-> "Immediate", cycles |-> 2]
      [] opcode = \hA4 -> [ok |-> TRUE, opcode |-> "LDY", mode |-> "ZeroPage", cycles |-> 3]
      [] opcode = \hB4 -> [ok |-> TRUE, opcode |-> "LDY", mode |-> "ZeroPageIndexX", cycles |-> 4]
      [] opcode = \hAC -> [ok |-> TRUE, opcode |-> "LDY", mode |-> "Absolute", cycles |-> 4]
      [] opcode = \hBC -> [ok |-> TRUE, opcode |-> "LDY", mode |-> "AbsoluteIndexX", cycles |-> 4]
      [] opcode = \h4A -> [ok |-> TRUE, opcode |-> "LSR", mode |-> "Accumulator", cycles |-> 2]
      [] opcode = \h46 -> [ok |-> TRUE, opcode |-> "LSR", mode |-> "ZeroPage", cycles |-> 5]
      [] opcode = \h56 -> [ok |-> TRUE, opcode |-> "LSR", mode |-> "ZeroPageIndexX", cycles |-> 6]
      [] opcode = \h4E -> [ok |-> TRUE, opcode |-> "LSR", mode |-> "Absolute", cycles |-> 6]
      [] opcode = \h5E -> [ok |-> TRUE, opcode |-> "LSR", mode |-> "AbsoluteIndexX", cycles |-> 7]
      [] opcode = \hEA -> [ok |-> TRUE, opcode |-> "NOP", mode |-> "Implicit", cycles |-> 2]
      [] opcode = \h09 -> [ok |-> TRUE, opcode |-> "ORA", mode |-> "Immediate", cycles |-> 2]
      [] opcode = \h05 -> [ok |-> TRUE, opcode |-> "ORA", mode |-> "ZeroPage", cycles |-> 3]
      [] opcode = \h15 -> [ok |-> TRUE, opcode |-> "ORA", mode |-> "ZeroPageIndexX", cycles |-> 4]
      [] opcode = \h0D -> [ok |-> TRUE, opcode |-> "ORA", mode |-> "Absolute", cycles |-> 4]
      [] opcode = \h1D -> [ok |-> TRUE, opcode |-> "ORA", mode |-> "AbsoluteIndexX", cycles |-> 4]
      [] opcode = \h19 -> [ok |-> TRUE, opcode |-> "ORA", mode |-> "AbsoluteIndexY", cycles |-> 4]
      [] opcode = \h01 -> [ok |-> TRUE, opcode |-> "ORA", mode |-> "IndirectX", cycles |-> 6]
      [] opcode = \h11 -> [ok |-> TRUE, opcode |-> "ORA", mode |-> "IndirectY", cycles |-> 5]
      [] opcode = \hAA -> [ok |-> TRUE, opcode |-> "TAX", mode |-> "Implicit", cycles |-> 2]
      [] opcode = \h8A -> [ok |-> TRUE, opcode |-> "TXA", mode |-> "Implicit", cycles |-> 2]
      [] opcode = \hCA -> [ok |-> TRUE, opcode |-> "DEX", mode |-> "Implicit", cycles |-> 2]
      [] opcode = \hE8 -> [ok |-> TRUE, opcode |-> "INX", mode |-> "Implicit", cycles |-> 2]
      [] opcode = \hA8 -> [ok |-> TRUE, opcode |-> "TAY", mode |-> "Implicit", cycles |-> 2]
      [] opcode = \h98 -> [ok |-> TRUE, opcode |-> "TYA", mode |-> "Implicit", cycles |-> 2]
      [] opcode = \h88 -> [ok |-> TRUE, opcode |-> "DEY", mode |-> "Implicit", cycles |-> 2]
      [] opcode = \hC8 -> [ok |-> TRUE, opcode |-> "INY", mode |-> "Implicit", cycles |-> 2]
      [] opcode = \h2A -> [ok |-> TRUE, opcode |-> "ROL", mode |-> "Accumulator", cycles |-> 2]
      [] opcode = \h26 -> [ok |-> TRUE, opcode |-> "ROL", mode |-> "ZeroPage", cycles |-> 5]
      [] opcode = \h36 -> [ok |-> TRUE, opcode |-> "ROL", mode |-> "ZeroPageIndexX", cycles |-> 6]
      [] opcode = \h2E -> [ok |-> TRUE, opcode |-> "ROL", mode |-> "Absolute", cycles |-> 6]
      [] opcode = \h3E -> [ok |-> TRUE, opcode |-> "ROL", mode |-> "AbsoluteIndexX", cycles |-> 7]
      [] opcode = \h6A -> [ok |-> TRUE, opcode |-> "ROR", mode |-> "Accumulator", cycles |-> 2]
      [] opcode = \h66 -> [ok |-> TRUE, opcode |-> "ROR", mode |-> "ZeroPage", cycles |-> 5]
      [] opcode = \h76 -> [ok |-> TRUE, opcode |-> "ROR", mode |-> "ZeroPageIndexX", cycles |-> 6]
      [] opcode = \h6E -> [ok |-> TRUE, opcode |-> "ROR", mode |-> "Absolute", cycles |-> 6]
      [] opcode = \h7E -> [ok |-> TRUE, opcode |-> "ROR", mode |-> "AbsoluteIndexX", cycles |-> 7]
      [] opcode = \h40 -> [ok |-> TRUE, opcode |-> "RTI", mode |-> "Implicit", cycles |-> 6]
      [] opcode = \h60 -> [ok |-> TRUE, opcode |-> "RTS", mode |-> "Implicit", cycles |-> 6]
      [] opcode = \hE9 -> [ok |-> TRUE, opcode |-> "SBC", mode |-> "Immediate", cycles |-> 2]
      [] opcode = \hE5 -> [ok |-> TRUE, opcode |-> "SBC", mode |-> "ZeroPage", cycles |-> 3]
      [] opcode = \hF5 -> [ok |-> TRUE, opcode |-> "SBC", mode |-> "ZeroPageIndexX", cycles |-> 4]
      [] opcode = \hED -> [ok |-> TRUE, opcode |-> "SBC", mode |-> "Absolute", cycles |-> 4]
      [] opcode = \hFD -> [ok |-> TRUE, opcode |-> "SBC", mode |-> "AbsoluteIndexX", cycles |-> 4]
      [] opcode = \hF9 -> [ok |-> TRUE, opcode |-> "SBC", mode |-> "AbsoluteIndexY", cycles |-> 4]
      [] opcode = \hE1 -> [ok |-> TRUE, opcode |-> "SBC", mode |-> "IndirectX", cycles |-> 6]
      [] opcode = \hF1 -> [ok |-> TRUE, opcode |-> "SBC", mode |-> "IndirectY", cycles |-> 5]
      [] opcode = \h85 -> [ok |-> TRUE, opcode |-> "STA", mode |-> "ZeroPage", cycles |-> 3]
      [] opcode = \h95 -> [ok |-> TRUE, opcode |-> "STA", mode |-> "ZeroPageIndexX", cycles |-> 4]
      [] opcode = \h8D -> [ok |-> TRUE, opcode |-> "STA", mode |-> "Absolute", cycles |-> 4]
      [] opcode = \h9D -> [ok |-> TRUE, opcode |-> "STA", mode |-> "AbsoluteIndexX", cycles |-> 5]
      [] opcode = \h99 -> [ok |-> TRUE, opcode |-> "STA", mode |-> "AbsoluteIndexY", cycles |-> 5]
      [] opcode = \h81 -> [ok |-> TRUE, opcode |-> "STA", mode |-> "IndirectX", cycles |-> 6]
      [] opcode = \h91 -> [ok |-> TRUE, opcode |-> "STA", mode |-> "IndirectY", cycles |-> 6]
      [] opcode = \h9A -> [ok |-> TRUE, opcode |-> "TXS", mode |-> "Implicit", cycles |-> 2]
      [] opcode = \hBA -> [ok |-> TRUE, opcode |-> "TSX", mode |-> "Implicit", cycles |-> 2]
      [] opcode = \h48 -> [ok |-> TRUE, opcode |-> "PHA", mode |-> "Implicit", cycles |-> 3]
      [] opcode = \h68 -> [ok |-> TRUE, opcode |-> "PLA", mode |-> "Implicit", cycles |-> 4]
      [] opcode = \h08 -> [ok |-> TRUE, opcode |-> "PHP", mode |-> "Implicit", cycles |-> 3]
      [] opcode = \h28 -> [ok |-> TRUE, opcode |-> "PLP", mode |-> "Implicit", cycles |-> 4]
      [] opcode = \h86 -> [ok |-> TRUE, opcode |-> "STX", mode |-> "ZeroPage", cycles |-> 3]
      [] opcode = \h96 -> [ok |-> TRUE, opcode |-> "STX", mode |-> "ZeroPageIndexY", cycles |-> 4]
      [] opcode = \h8E -> [ok |-> TRUE, opcode |-> "STX", mode |-> "Absolute", cycles |-> 4]
      [] opcode = \h84 -> [ok |-> TRUE, opcode |-> "STY", mode |-> "ZeroPage", cycles |-> 3]
      [] opcode = \h94 -> [ok |-> TRUE, opcode |-> "STY", mode |-> "ZeroPageIndexX", cycles |-> 4]
      [] opcode = \h8C -> [ok |-> TRUE, opcode |-> "STY", mode |-> "Absolute", cycles |-> 4]
      [] OTHER -> [ok |-> FALSE, opcode |-> "Err", mode |-> "Err", cycles |-> 0]

(***************************************************************************)
(* CPU actions (cpu_action.rs)                                             *)
(***************************************************************************)
NMI_INTERRUPT == [vector |-> \hFFFA, is_set_b_flag |-> FALSE, is_hardware_interrupt |-> TRUE]

STACK_BASE == \h100

\* variant of increment_cycle_counters: the PPU gets two dots per CPU cycle
increment_cycle_counters_two_dots(m, cycles) ==
    [m EXCEPT !.cpu.cycle_counter = m.cpu.cycle_counter + cycles,
              !.ppu.cycle_counter = m.ppu.cycle_counter + 2 * cycles]

increment_cycle_counters(m, cycles) ==
    [m EXCEPT !.cpu.cycle_counter = m.cpu.cycle_counter + cycles,
              !.ppu.cycle_counter = m.ppu.cycle_counter + 3 * cycles]

push_to_stack(m, value) ==
    LET stack_addr == STACK_BASE + m.cpu.stack_pointer
    IN  write_byte([m EXCEPT !.cpu.stack_pointer = WrapSub8(m.cpu.stack_pointer, 1)],
                   stack_addr, value)

pop_from_stack(m) ==
    LET sp == WrapAdd8(m.cpu.stack_pointer, 1)
    IN  read_byte([m EXCEPT !.cpu.stack_pointer = sp], STACK_BASE + sp)

set_zero_flag(status, result) == SetBit(status, ZERO_BIT, result = 0)

set_negative_flag(status, result) == SetBit(status, NEGATIVE_BIT, BitAt(result, 7) = 1)

\* the N and Z updates that follow a load, transfer, increment or decrement
SetNZ(m, result) ==
    [m EXCEPT !.cpu.status = set_zero_flag(set_negative_flag(m.cpu.status, result), result)]

\* the program counter loaded from the word r read at a vector or off the stack
load_pc(r) == [r.m EXCEPT !.cpu.program_counter = r.v]

\* the end of execute_interrupt: the I flag, then the jump through the vector
enter_interrupt(m, interrupt) ==
    load_pc(read_two_bytes(
        [m EXCEPT !.cpu.status =
             SetBit(m.cpu.status, INT_DISABLE_BIT, interrupt.is_hardware_interrupt)],
        interrupt.vector))

\* variant of execute_interrupt: the status is pushed as it is, B included
execute_interrupt_keep_b(m, interrupt) ==
    LET lsb    == m.cpu.program_counter % 256
        msb    == m.cpu.program_counter \div 256
    IN  enter_interrupt(
            push_to_stack(push_to_stack(push_to_stack(m, msb), lsb), m.cpu.status),
            interrupt)

\* variant of execute_interrupt: the interrupt sequence is charged seven cycles
execute_interrupt_charged(m, interrupt) ==
    LET lsb    == m.cpu.program_counter % 256
        msb    == m.cpu.program_counter \div 256
        status == SetBit(m.cpu.status, BRK_BIT, interrupt.is_set_b_flag)
    IN  increment_cycle_counters(
            enter_interrupt(
                push_to_stack(push_to_stack(push_to_stack(m, msb), lsb), status),
                interrupt),
            7)

execute_interrupt(m, interrupt) ==
    LET lsb    == m.cpu.program_counter % 256
        msb    == m.cpu.program_counter \div 256
        status == SetBit(m.cpu.status, BRK_BIT, interrupt.is_set_b_flag)
    IN  enter_interrupt(
            push_to_stack(push_to_stack(push_to_stack(m, msb), lsb), status),
            interrupt)

PageCrossOpcodes == {"ADC", "AND", "CMP", "EOR", "LDA", "LDX", "LDY", "ORA", "SBC"}
PageCrossModes == {"AbsoluteIndexX", "AbsoluteIndexY", "IndirectY"}
BranchOpcodes == {"BPL", "BMI", "BVC", "BVS", "BCC", "BCS", "BNE", "BEQ"}

\* variant of the extra cycles: a taken branch costs one more cycle, whatever the page
compute_extra_cycles_flat_branch(cpu, opcode, addressing_mode) ==
    IF opcode \in PageCrossOpcodes /\ addressing_mode \in PageCrossModes
    THEN (IF cpu.page_cross_flag THEN 1 ELSE 0)
    ELSE IF opcode \in BranchOpcodes
    THEN (IF cpu.branch_flag THEN 1 ELSE 0)
    ELSE 0

\* variant of the extra cycles: a branch is charged the page-cross latch whether
\* or not it was taken
compute_extra_cycles_stale_page(cpu, opcode, addressing_mode) ==
    IF opcode \in PageCrossOpcodes /\ addressing_mode \in PageCrossModes
    THEN (IF cpu.page_cross_flag THEN 1 ELSE 0)
    ELSE IF opcode \in BranchOpcodes
    THEN (IF cpu.branch_flag THEN 1 ELSE 0)
         + (IF cpu.page_cross_flag THEN 1 ELSE 0)
    ELSE 0

compute_extra_cycles(cpu, opcode, addressing_mode) ==
    IF opcode \in PageCrossOpcodes /\ addressing_mode \in PageCrossModes
    THEN (IF cpu.page_cross_flag THEN 1 ELSE 0)
    ELSE IF opcode \in BranchOpcodes
    THEN (IF cpu.branch_flag THEN 1 ELSE 0)
         + (IF cpu.branch_flag /\ cpu.page_cross_flag THEN 1 ELSE 0)
    ELSE 0

ParamNone == [kind |-> "None", v |-> 0]
ParamValue(v) == [kind |-> "Value", v |-> v]
ParamAddress(a) == [kind |-> "Address", v |-> a]

AsValue(r) == [m |-> r.m, param |-> ParamValue(r.v)]
AsAddress(r) == [m |-> r.m, param |-> ParamAddress(r.v)]
\* a zero-page operand r indexed by a register, wrapping within the page
AsZeroPage(r, index_reg) == [m |-> r.m, param |-> ParamAddress(WrapAdd8(r.v, index_reg))]

\* the indexed modes: the address r.v plus the index register, and the page-cross latch
IndexedArg(r, index_reg) ==
    LET mem_addr == WrapAdd16(r.v, index_reg)
    IN  [m     |-> [r.m EXCEPT !.cpu.page_cross_flag =
                        (r.v \div 256) # (mem_addr \div 256)],
         param |-> ParamAddress(mem_addr)]

\* JMP (ind): a vector on the last byte of a page takes its high byte from the page start
IndirectJumpArg(p) ==
    IF p.v % 256 = \hFF
    THEN AsAddress(Word(read_byte(p.m, p.v), read_byte(read_byte(p.m, p.v).m, p.v - \hFF)))
    ELSE AsAddress(read_two_bytes(p.m, p.v))

\* the pointer read of (zp,X) and (zp),Y from the zero-page operand r
PagePointer(r, index_reg) == read_two_page_bytes(r.m, WrapAdd8(r.v, index_reg))

read_arg(m, mode) ==
    CASE mode = "Implicit" -> [m |-> m, param |-> ParamNone]
      [] mode = "Accumulator" -> [m |-> m, param |-> ParamValue(m.cpu.reg_a)]
      [] mode \in {"Immediate", "Relative"} -> AsValue(read_byte_from_pc(m))
      [] mode = "IndirectJump" -> IndirectJumpArg(read_two_bytes_from_pc(m))
      [] mode \in {"Absolute", "AbsoluteJump"} -> AsAddress(read_two_bytes_from_pc(m))
      [] mode = "ZeroPage" -> AsAddress(read_byte_from_pc(m))
      [] mode = "ZeroPageIndexX" -> AsZeroPage(read_byte_from_pc(m), m.cpu.reg_x)
      [] mode = "ZeroPageIndexY" -> AsZeroPage(read_byte_from_pc(m), m.cpu.reg_y)
      [] mode = "AbsoluteIndexX" -> IndexedArg(read_two_bytes_from_pc(m), m.cpu.reg_x)
      [] mode = "AbsoluteIndexY" -> IndexedArg(read_two_bytes_from_pc(m), m.cpu.reg_y)
      [] mode = "IndirectX" ->
            AsAddress(PagePointer(read_byte_from_pc(m), m.cpu.reg_x))
      [] mode = "IndirectY" ->
            IndexedArg(PagePointer(read_byte_from_pc(m), 0), m.cpu.reg_y)

\* the operand byte of an instruction that takes a value or reads it from an address
Operand(m, param) ==
    IF param.kind = "Value" THEN [m |-> m, v |-> param.v] ELSE read_byte(m, param.v)

\* variant of the branch: the operand is added without sign extension
branch_unsigned(m, taken, parameter) ==
    LET new_program_counter == WrapAdd16(m.cpu.program_counter, parameter)
    IN  IF taken
        THEN [m EXCEPT !.cpu.branch_flag = TRUE,
                       !.cpu.page_cross_flag =
                           (new_program_counter \div 256) # (m.cpu.program_counter \div 256),
                       !.cpu.program_counter = new_program_counter]
        ELSE [m EXCEPT !.cpu.branch_flag = FALSE]

\* bpl .. beq: the latch records the outcome; a taken branch moves the pc
branch(m, taken, parameter) ==
    LET offset == IF parameter >= 128 THEN parameter + \hFF00 ELSE parameter
        new_program_counter == WrapAdd16(m.cpu.program_counter, offset)
    IN  IF taken
        THEN [m EXCEPT !.cpu.branch_flag = TRUE,
                       !.cpu.page_cross_flag =
                           (new_program_counter \div 256) # (m.cpu.program_counter \div 256),
                       !.cpu.program_counter = new_program_counter]
        ELSE [m EXCEPT !.cpu.branch_flag = FALSE]

Flag(m, bit) == BitAt(m.cpu.status, bit) = 1

BranchTaken(m, opcode) ==
    CASE opcode = "BPL" -> ~Flag(m, NEGATIVE_BIT)
      [] opcode = "BMI" -> Flag(m, NEGATIVE_BIT)
      [] opcode = "BVC" -> ~Flag(m, OVERFLOW_BIT)
      [] opcode = "BVS" -> Flag(m, OVERFLOW_BIT)
      [] opcode = "BCC" -> ~Flag(m, CARRY_BIT)
      [] opcode = "BCS" -> Flag(m, CARRY_BIT)
      [] opcode = "BNE" -> ~Flag(m, ZERO_BIT)
      [] opcode = "BEQ" -> Flag(m, ZERO_BIT)

SetFlag(m, bit, on) == [m EXCEPT !.cpu.status = SetBit(m.cpu.status, bit, on)]

\* the status register loaded from the byte r popped: B cleared, the unused bit set
load_status(r) ==
    [r.m EXCEPT !.cpu.status = SetBit(SetBit(r.v, BRK_BIT, FALSE), ALWAYS_BIT, TRUE)]

\* variant of plp: the status is the byte pulled, as it is
plp_as_pulled(m) ==
    [pop_from_stack(m).m EXCEPT !.cpu.status = pop_from_stack(m).v]

plp(m) == load_status(pop_from_stack(m))

pop_msb(lsb) == Word(lsb, pop_from_stack(lsb.m))

\* the low byte popped after the high byte
pop_lsb(msb) == [m |-> pop_from_stack(msb.m).m, v |-> msb.v * 256 + pop_from_stack(msb.m).v]

\* variant of rti: the high byte of the program counter is pulled before the low
rti_high_first(m) == load_pc(pop_lsb(pop_from_stack(plp(m))))

rti(m) == load_pc(pop_msb(pop_from_stack(plp(m))))

\* the two pushes of jsr, for the return address r computed: high byte first
push_return(r) == push_to_stack(push_to_stack(r.m, r.v \div 256), r.v % 256)

\* variant of jsr: the address pushed is that of the next instruction
jsr_push_next(m, address) ==
    [push_return([m |-> m, v |-> m.cpu.program_counter])
        EXCEPT !.cpu.program_counter = address]

jsr(m, address) ==
    [push_return(Sub16(m, m.cpu.program_counter, 1))
        EXCEPT !.cpu.program_counter = address]

\* the end of rts: the word r pulled, plus one, is the program counter
return_to(r) == load_pc(Add16(r.m, r.v, 1))

rts(m) == return_to(pop_msb(pop_from_stack(m)))

\* the accumulator loaded from the byte r popped
pla(r) == SetNZ([r.m EXCEPT !.cpu.reg_a = r.v], r.v)

RECURSIVE BitXorN(_, _, _)
BitXorN(a, b, n) ==
    IF n = 0 THEN 0
    ELSE ((a + b) % 2) + 2 * BitXorN(a \div 2, b \div 2, n - 1)

\* a ^ b on 8-bit operands
BitXor(a, b) == BitXorN(a, b, 8)

\* the carry flag of a 9-bit sum
set_carry_flag(status, result) == SetBit(status, CARRY_BIT, result > \hFF)

\* the flags adc leaves for the operand, the 9-bit sum and the accumulator before
adc_flags(status, parameter, sum, reg_a) ==
    set_carry_flag(
        set_zero_flag(
            SetBit(set_negative_flag(status, sum % 256), OVERFLOW_BIT,
                   BitAnd(BitAnd(BitXor(parameter, sum % 256), BitXor(reg_a, sum % 256)),
                          \h80) # 0),
            sum % 256),
        sum)

adc(m, parameter) ==
    LET sum == m.cpu.reg_a + parameter + BitAt(m.cpu.status, CARRY_BIT)
    IN  [m EXCEPT !.cpu.status = adc_flags(m.cpu.status, parameter, sum, m.cpu.reg_a),
                  !.cpu.reg_a = sum % 256]

\* variant of sbc: the operand is negated (two's complement), not complemented
sbc_negated(m, parameter) == adc(m, (256 - parameter) % 256)

sbc(m, parameter) == adc(m, BitXor(parameter, \hFF))

\* variant of cpx: the carry is set only when X is strictly greater
cpx_strict_carry(m, parameter) ==
    LET result == WrapSub8(m.cpu.reg_x, parameter)
    IN  SetFlag(SetNZ(m, result), CARRY_BIT, m.cpu.reg_x > parameter)

cpx(m, parameter) ==
    LET result == WrapSub8(m.cpu.reg_x, parameter)
    IN  SetFlag(SetNZ(m, result), CARRY_BIT, m.cpu.reg_x >= parameter)

ArithmeticOpcodes == {"ADC", "SBC", "CPX"}

\* adc, sbc, cpx on the operand r
ExecArithmetic(r, opcode) ==
    CASE opcode = "ADC" -> adc(r.m, r.v)
      [] opcode = "SBC" -> sbc(r.m, r.v)
      [] opcode = "CPX" -> cpx(r.m, r.v)

\* variant of dey: the new Y is computed from X
dey_from_x(m) ==
    SetNZ([m EXCEPT !.cpu.reg_y = WrapSub8(m.cpu.reg_x, 1)], WrapSub8(m.cpu.reg_x, 1))

dey(m) ==
    SetNZ([m EXCEPT !.cpu.reg_y = WrapSub8(m.cpu.reg_y, 1)], WrapSub8(m.cpu.reg_y, 1))

iny(m) ==
    SetNZ([m EXCEPT !.cpu.reg_y = WrapAdd8(m.cpu.reg_y, 1)], WrapAdd8(m.cpu.reg_y, 1))

LoadOpcodes == {"LDA", "LDX", "LDY"}
StoreOpcodes == {"STA", "STX", "STY"}
ImpliedOpcodes == {"BRK", "CLC", "SEC", "CLI", "SEI", "CLV", "CLD", "SED", "NOP",
                   "TAX", "TXA", "DEX", "INX", "TAY", "TYA", "DEY", "INY",
                   "RTI", "RTS", "TXS", "TSX", "PHA", "PLA", "PHP", "PLP"}

\* the mnemonics whose execution is modelled so far
ModelledOpcodes == LoadOpcodes \cup StoreOpcodes \cup ImpliedOpcodes \cup BranchOpcodes
                   \cup ArithmeticOpcodes \cup {"JMP", "JSR"}

\* lda, ldx, ldy on the operand r
ExecLoad(r, opcode) ==
    CASE opcode = "LDA" -> SetNZ([r.m EXCEPT !.cpu.reg_a = r.v], r.v)
      [] opcode = "LDX" -> SetNZ([r.m EXCEPT !.cpu.reg_x = r.v], r.v)
      [] opcode = "LDY" -> SetNZ([r.m EXCEPT !.cpu.reg_y = r.v], r.v)

ExecStore(m, opcode, address) ==
    CASE opcode = "STA" -> write_byte(m, address, m.cpu.reg_a)
      [] opcode = "STX" -> write_byte(m, address, m.cpu.reg_x)
      [] opcode = "STY" -> write_byte(m, address, m.cpu.reg_y)

ExecImplied(m, opcode) ==
    CASE opcode = "BRK" -> SetFlag(m, BRK_BIT, TRUE)
      [] opcode = "CLC" -> SetFlag(m, CARRY_BIT, FALSE)
      [] opcode = "SEC" -> SetFlag(m, CARRY_BIT, TRUE)
      [] opcode = "CLI" -> SetFlag(m, INT_DISABLE_BIT, FALSE)
      [] opcode = "SEI" -> SetFlag(m, INT_DISABLE_BIT, TRUE)
      [] opcode = "CLV" -> SetFlag(m, OVERFLOW_BIT, FALSE)
      [] opcode = "CLD" -> SetFlag(m, DECIMAL_BIT, FALSE)
      [] opcode = "SED" -> SetFlag(m, DECIMAL_BIT, TRUE)
      [] opcode = "NOP" -> m
      [] opcode = "TAX" -> SetNZ([m EXCEPT !.cpu.reg_x = m.cpu.reg_a], m.cpu.reg_a)
      [] opcode = "TXA" -> SetNZ([m EXCEPT !.cpu.reg_a = m.cpu.reg_x], m.cpu.reg_x)
      [] opcode = "DEX" -> SetNZ([m EXCEPT !.cpu.reg_x = WrapSub8(m.cpu.reg_x, 1)],
                                 WrapSub8(m.cpu.reg_x, 1))
      [] opcode = "INX" -> SetNZ([m EXCEPT !.cpu.reg_x = WrapAdd8(m.cpu.reg_x, 1)],
                                 WrapAdd8(m.cpu.reg_x, 1))
      [] opcode = "TAY" -> SetNZ([m EXCEPT !.cpu.reg_y = m.cpu.reg_a], m.cpu.reg_a)
      [] opcode = "TYA" -> SetNZ([m EXCEPT !.cpu.reg_a = m.cpu.reg_y], m.cpu.reg_y)
      [] opcode = "DEY" -> dey(m)
      [] opcode = "INY" -> iny(m)
      [] opcode = "RTI" -> rti(m)
      [] opcode = "RTS" -> rts(m)
      [] opcode = "TXS" -> [m EXCEPT !.cpu.stack_pointer = m.cpu.reg_x]
      [] opcode = "TSX" -> SetNZ([m EXCEPT !.cpu.reg_x = m.cpu.stack_pointer],
                                 m.cpu.stack_pointer)
      [] opcode = "PHA" -> push_to_stack(m, m.cpu.reg_a)
      [] opcode = "PLA" -> pla(pop_from_stack(m))
      [] opcode = "PHP" -> push_to_stack(m, SetBit(m.cpu.status, BRK_BIT, TRUE))
      [] opcode = "PLP" -> plp(m)

\* the match on (opcode, parameter); a pair with no arm is Err("Invalid")
execute_instruction(m, opcode, param) ==
    IF opcode \in LoadOpcodes /\ param.kind \in {"Value", "Address"}
    THEN [m |-> ExecLoad(Operand(m, param), opcode), ok |-> TRUE]
    ELSE IF opcode \in ArithmeticOpcodes /\ param.kind \in {"Value", "Address"}
    THEN [m |-> ExecArithmetic(Operand(m, param), opcode), ok |-> TRUE]
    ELSE IF opcode \in StoreOpcodes /\ param.kind = "Address"
    THEN [m |-> ExecStore(m, opcode, param.v), ok |-> TRUE]
    ELSE IF opcode \in BranchOpcodes /\ param.kind = "Value"
    THEN [m |-> branch(m, BranchTaken(m, opcode), param.v), ok |-> TRUE]
    ELSE IF opcode = "JMP" /\ param.kind = "Address"
    THEN [m |-> [m EXCEPT !.cpu.program_counter = param.v], ok |-> TRUE]
    ELSE IF opcode = "JSR" /\ param.kind = "Address"
    THEN [m |-> jsr(m, param.v), ok |-> TRUE]
    ELSE IF opcode \in ImpliedOpcodes /\ param.kind = "None"
    THEN [m |-> ExecImplied(m, opcode), ok |-> TRUE]
    ELSE [m |-> m, ok |-> FALSE]

\* variant of the NMI poll: the pending token is read but not taken
poll_nmi_keep_token(m) ==
    IF m.ppu.nmi_interrupt_poll
    THEN [m |-> execute_interrupt(m, NMI_INTERRUPT), serviced |-> TRUE]
    ELSE [m |-> m, serviced |-> FALSE]

\* step 1 of next_cpu_instruction: take the pending NMI, if any, and service it
poll_nmi(m) ==
    IF m.ppu.nmi_interrupt_poll
    THEN [m        |-> execute_interrupt([m EXCEPT !.ppu.nmi_interrupt_poll = FALSE],
                                         NMI_INTERRUPT),
          serviced |-> TRUE]
    ELSE [m |-> m, serviced |-> FALSE]

\* what an interrupt entry left behind: S, P, the token and the three bytes pushed
\* from the stack pointer s on (high byte, low byte, status)
EntryOf(m, s) ==
    [sp     |-> m.cpu.stack_pointer,
     status |-> m.cpu.status,
     token  |-> m.ppu.nmi_interrupt_poll,
     pushed |-> <<Get(m.cpu.ram, STACK_BASE + s),
                  Get(m.cpu.ram, STACK_BASE + WrapSub8(s, 1)),
                  Get(m.cpu.ram, STACK_BASE + WrapSub8(s, 2))>>]

NoEntry == [sp |-> 0, status |-> 0, token |-> FALSE, pushed |-> <<>>]

\* what the caller learns about a step that serviced (or not) an NMI and
\* fetched its opcode at start_pc
StepInfo(n, s, op) ==
    [serviced |-> n.serviced, start_pc |-> n.m.cpu.program_counter, opcode |-> op,
     cycles |-> 0, new_frame |-> FALSE, dropped |-> FALSE,
     entry |-> IF n.serviced THEN EntryOf(n.m, s) ELSE NoEntry,
     mode |-> "Err", param |-> ParamNone, length |-> 0]

\* the mode, the parameter and the length (end_pc - start_pc) of the instruction
InstructionMetaData(info, mode, param, end_pc) ==
    [info EXCEPT !.mode = mode, !.param = param,
                 !.length = (end_pc - info.start_pc + 65536) % 65536]

\* step 5: the cycles of the instruction, charged to both counters
update_cycles(e, d, info) ==
    IF ~e.ok THEN [m |-> e.m, ok |-> FALSE, info |-> info]
    ELSE [m    |-> increment_cycle_counters(
                       e.m, d.cycles + compute_extra_cycles(e.m.cpu, d.opcode, d.mode)),
          ok   |-> TRUE,
          info |-> [info EXCEPT
                       !.cycles = d.cycles
                                  + compute_extra_cycles(e.m.cpu, d.opcode, d.mode)]]

\* `end_pc - start_pc`: the subtraction of a checked build fails when the pc wrapped
instruction_length(a, start_pc) ==
    IF a.m.cpu.program_counter < start_pc /\ build = "debug"
    THEN [a EXCEPT !.m = Panic(a.m)] ELSE a

\* step 4: execute on the operand a
execute_on(a, d, info) ==
    update_cycles(execute_instruction(a.m, d.opcode, a.param), d,
                  InstructionMetaData(info, d.mode, a.param, a.m.cpu.program_counter))

\* variant of the operand stage: an undecodable byte is skipped as a one-byte no-op
read_operand_skip_undecoded(f, d, info) ==
    IF ~d.ok THEN [m |-> f.m, ok |-> TRUE, info |-> info]
    ELSE execute_on(instruction_length(read_arg(f.m, d.mode), info.start_pc), d, info)

\* variant of the operand stage: a failed decode puts the program counter back
read_operand_rewind(f, d, info) ==
    IF ~d.ok
    THEN [m    |-> [f.m EXCEPT !.cpu.program_counter = info.start_pc],
          ok   |-> FALSE,
          info |-> info]
    ELSE execute_on(instruction_length(read_arg(f.m, d.mode), info.start_pc), d, info)

\* step 3: the operand of the decoded opcode d, fetched after the opcode byte f
read_operand(f, d, info) ==
    IF ~d.ok THEN [m |-> f.m, ok |-> FALSE, info |-> info]
    ELSE execute_on(instruction_length(read_arg(f.m, d.mode), info.start_pc), d, info)

\* step 2: decode the opcode byte f
decode_fetched(n, s, f, d) == read_operand(f, d, StepInfo(n, s, d.opcode))

fetch(n, s, f) == decode_fetched(n, s, f, decode_opcode(f.v))

fetch_after_poll(n, s) == fetch(n, s, read_byte_from_pc(n.m))

\* one instruction: NMI poll, fetch, decode, operand fetch, execute, cycle accounting
next_cpu_instruction(m) == fetch_after_poll(poll_nmi(m), m.cpu.stack_pointer)

(***************************************************************************)
(* Console facade.  The step of the console advances the PPU after every   *)
(* successfully executed instruction and reports the frame wrap.           *)
(***************************************************************************)
ppu_advanced(r, u) ==
    [r EXCEPT !.m.ppu = u.ppu,
              !.info.new_frame = u.new_frame,
              !.info.dropped = u.new_frame /\ r.m.ppu.nmi_interrupt_poll]

advance_ppu(r) ==
    IF r.ok /\ r.m.fault = "none"
    THEN ppu_advanced(r, update_ppu_and_check_for_new_frame(r.m.ppu))
    ELSE r

nes_next_cpu_instruction(m) == advance_ppu(next_cpu_instruction(m))

(***************************************************************************)
(* The console as a state machine.  obs records what the last operation    *)
(* returned to its caller and the history the properties refer to.         *)
(***************************************************************************)
Machine == [cpu |-> cpu_state, ppu |-> ppu_state, ctl |-> controller, fault |-> "none"]

\* a panic ends the program: the state is left as it was and nothing runs afterwards
Alive == obs.result # "panic"

Install(m) ==
    IF m.fault = "none"
    THEN cpu_state' = m.cpu /\ ppu_state' = m.ppu /\ controller' = m.ctl
    ELSE UNCHANGED <<cpu_state, ppu_state, controller>>

Outcome(m, ok) == IF m.fault # "none" THEN "panic" ELSE IF ok THEN "Ok" ELSE "Err"

\* scanline * 341 + dot
Position(p) == p.cur_scanline * DOTS_PER_SCANLINE + p.cycle_counter

\* the PPU register a CPU address selects (index & PPU_MASK), -1 outside the window
PpuRegister(addr) ==
    IF addr \in PPU_REG_START..PPU_REG_END THEN BitAnd(addr, PPU_MASK) ELSE -1

\* the nametable cell PpuBus::read_byte / write_byte index for a PPU address in
\* 0x2000..=0x3EFF
VramCell(v) == mirror_vram_addr(Machine, IF v >= \h3000 THEN v - \h1000 ELSE v).v

\* the nametable cell a PPUDATA access through CPU address addr goes to
AccessedCell(addr) ==
    IF PpuRegister(addr) = 7 /\ PpuAddr_read(ppu_state.ppuaddr) \in \h2000..\h3EFF
    THEN VramCell(PpuAddr_read(ppu_state.ppuaddr))
    ELSE 0

\* the palette cell PpuBus::write_byte indexes for a PPU address in 0x3F00..=0x3FFF
PaletteCell(v) ==
    LET masked_index == v % 32
    IN  IF masked_index \in {\h10, \h14, \h18, \h1C} THEN masked_index - \h10
        ELSE masked_index

\* what the PPUDATA writes made so far have stored, cell by cell
StoredAfterWrite(stored, m, addr, value, lo, hi, cell) ==
    IF PpuRegister(addr) = 7 /\ m.fault = "none"
       /\ PpuAddr_read(ppu_state.ppuaddr) \in lo..hi
    THEN Put(stored, cell, value)
    ELSE stored

\* no subroutine call made yet
NoCall == [made |-> FALSE, site |-> 0, sp |-> 0]

\* the last JSR a step completed: its address and the stack pointer it started with
CallOf(r) ==
    IF r.info.opcode = "JSR" /\ r.ok /\ r.m.fault = "none"
    THEN [made |-> TRUE, site |-> r.info.start_pc,
          sp   |-> IF r.info.serviced THEN WrapSub8(cpu_state.stack_pointer, 3)
                   ELSE cpu_state.stack_pointer]
    ELSE obs.call

\* no NMI serviced yet
NoService == [taken |-> FALSE, pc |-> 0, sp |-> 0, status |-> 0, pushed |-> <<0, 0, 0>>]

\* the last NMI a step serviced: PC, S and P when the step began, and the three
\* bytes the service left on the stack
ServiceOf(r) ==
    IF r.info.serviced /\ r.m.fault = "none"
    THEN [taken |-> TRUE, pc |-> cpu_state.program_counter,
          sp |-> cpu_state.stack_pointer, status |-> cpu_state.status,
          pushed |-> r.info.entry.pushed]
    ELSE obs.nmi

ObsInit ==
    [op |-> "init", addr |-> 0, value |-> 0, result |-> "Ok",
     serviced |-> FALSE, start_pc |-> 0, opcode |-> "none", cycles |-> 0,
     new_frame |-> FALSE, dropped |-> FALSE, vblank_entry |-> FALSE, entry |-> NoEntry,
     latched |-> FALSE,
     frames |-> 0, reads |-> 0, write0 |-> FALSE, frame_call |-> "idle", origin |-> 0,
     strobe_high |-> FALSE, fell |-> FALSE, snapshot |-> 0, changed |-> FALSE,
     latch_v |-> 0, buffer |-> 0, wrote_high |-> FALSE,
     latch_start |-> 0, since_latch |-> 0, vram |-> EmptyArray, palette |-> EmptyArray,
     left |-> -1, cell |-> 0, written |-> EmptyArray, executed |-> FALSE,
     call |-> NoCall, toggle_writes |-> 0, nmi |-> NoService,
     port_written |-> FALSE]

\* the pending-NMI token is set in m and was not before the operation
Latched(m) == m.fault = "none" /\ m.ppu.nmi_interrupt_poll /\ ~ppu_state.nmi_interrupt_poll

\* the fields of obs that describe one operation, cleared before each
ObsClear ==
    [obs EXCEPT !.addr = 0, !.value = 0, !.serviced = FALSE, !.start_pc = 0,
                !.opcode = "none", !.cycles = 0, !.new_frame = FALSE,
                !.dropped = FALSE, !.vblank_entry = FALSE, !.entry = NoEntry,
                !.latched = FALSE,
                !.latch_v = 0, !.buffer = 0, !.wrote_high = FALSE, !.cell = 0,
                !.executed = FALSE,
                !.left = IF obs.left > 0 THEN obs.left - 1 ELSE obs.left]

\* the bookkeeping of one instruction step with outcome r
ObsStep(r, op) ==
    [ObsClear EXCEPT
        !.op = op,
        !.result = Outcome(r.m, r.ok),
        !.serviced = r.info.serviced,
        !.start_pc = r.info.start_pc,
        !.opcode = r.info.opcode,
        !.cycles = r.info.cycles,
        !.new_frame = r.info.new_frame,
        !.dropped = r.info.dropped,
        !.entry = r.info.entry,
        !.call = CallOf(r),
        !.nmi = ServiceOf(r),
        !.latched = Latched(r.m),
        !.vblank_entry = /\ r.m.fault = "none"
                         /\ r.m.ppu.cur_scanline = VBLANK_SCANLINE
                         /\ ppu_state.cur_scanline # VBLANK_SCANLINE,
        !.frames = obs.frames + IF r.info.new_frame THEN 1 ELSE 0]

\* bounds of the exploration
MaxCycles == 40
MaxReads == 10

\* the console after a step with outcome r
StepDone(r, op) ==
    /\ r.info.opcode \in ModelledOpcodes \cup {"Err"}
    /\ Install(r.m)
    /\ obs' = ObsStep(r, op)

\* NES::next_cpu_instruction on the console
Step ==
    /\ Alive
    /\ obs.frame_call # "running"
    /\ cpu_state.cycle_counter < MaxCycles
    /\ StepDone(nes_next_cpu_instruction(Machine), "step")
    /\ UNCHANGED <<rom, build>>

\* the writes to PPUSCROLL and PPUADDR counted since construction or the last
\* PPUSTATUS read, up to three
ToggleWritesAfterRead(addr) ==
    IF PpuRegister(addr) = 2 THEN 0 ELSE obs.toggle_writes

ToggleWritesAfterWrite(addr) ==
    IF PpuRegister(addr) \in {5, 6} /\ obs.toggle_writes < 3
    THEN obs.toggle_writes + 1 ELSE obs.toggle_writes

BusReadDone(r, addr) ==
    /\ Install(r.m)
    /\ obs' = [ObsClear EXCEPT !.op = "bus_read", !.addr = addr,
                               !.value = r.v, !.result = Outcome(r.m, TRUE),
                               !.reads = IF addr = CONTROLLER_ADDR
                                         THEN obs.reads + 1 ELSE obs.reads,
                               !.latch_v = PpuAddr_read(ppu_state.ppuaddr),
                               !.cell = AccessedCell(addr),
                               !.buffer = ppu_state.ppudata,
                               !.toggle_writes = ToggleWritesAfterRead(addr),
                               !.since_latch =
                                   IF PpuRegister(addr) = 7 /\ r.m.fault = "none"
                                      /\ obs.since_latch < 3
                                   THEN obs.since_latch + 1 ELSE obs.since_latch]

\* a host read through as_cpu_bus().read_byte(addr)
BusRead(addr) ==
    /\ Alive
    /\ obs.frame_call # "running"
    /\ addr = CONTROLLER_ADDR => obs.reads < MaxReads
    /\ BusReadDone(read_byte(Machine, addr), addr)
    /\ UNCHANGED <<rom, build>>

BusWriteDone(m, addr, value) ==
    /\ Install(m)
    /\ obs' = [ObsClear EXCEPT !.op = "bus_write", !.addr = addr,
                               !.value = value, !.result = Outcome(m, TRUE),
                               !.latched = Latched(m),
                               !.reads = IF addr = CONTROLLER_ADDR THEN 0 ELSE obs.reads,
                               !.write0 = (addr = CONTROLLER_ADDR /\ value % 2 = 0),
                               !.strobe_high = IF addr = CONTROLLER_ADDR
                                               THEN value % 2 = 1 ELSE obs.strobe_high,
                               !.fell = IF addr = CONTROLLER_ADDR
                                        THEN value % 2 = 0 /\ obs.strobe_high
                                        ELSE obs.fell,
                               !.snapshot = IF addr = CONTROLLER_ADDR /\ value % 2 = 0
                                            THEN controller.controller_state
                                            ELSE obs.snapshot,
                               !.changed = IF addr = CONTROLLER_ADDR
                                           THEN FALSE ELSE obs.changed,
                               !.latch_v = PpuAddr_read(ppu_state.ppuaddr),
                               !.cell = AccessedCell(addr),
                               !.buffer = ppu_state.ppudata,
                               !.wrote_high = ppu_state.ppuaddr.is_set_msb,
                               !.toggle_writes = ToggleWritesAfterWrite(addr),
                               !.port_written = (addr = CONTROLLER_ADDR) \/ obs.port_written,
                               !.latch_start =
                                   IF PpuRegister(addr) = 6 /\ ~ppu_state.ppuaddr.is_set_msb
                                   THEN PpuAddr_read(m.ppu.ppuaddr) ELSE obs.latch_start,
                               !.since_latch =
                                   IF PpuRegister(addr) = 6 /\ ~ppu_state.ppuaddr.is_set_msb
                                   THEN 0
                                   ELSE IF PpuRegister(addr) \in {6, 7} THEN 3
                                   ELSE obs.since_latch,
                               !.written = IF addr <= RAM_END /\ m.fault = "none"
                                           THEN Put(obs.written, addr % \h800, value)
                                           ELSE obs.written,
                               !.vram = StoredAfterWrite(
                                            obs.vram, m, addr, value, \h2000, \h3EFF,
                                            VramCell(PpuAddr_read(ppu_state.ppuaddr))),
                               !.palette = StoredAfterWrite(
                                               obs.palette, m, addr, value, \h3F00, \h3FFF,
                                               PaletteCell(PpuAddr_read(ppu_state.ppuaddr)))]

\* a host write through as_cpu_bus().write_byte(addr, value)
BusWrite(addr, value) ==
    /\ Alive
    /\ obs.frame_call # "running"
    /\ BusWriteDone(write_byte(Machine, addr, value), addr, value)
    /\ UNCHANGED <<rom, build>>

\* the host's button update, Controller::set_controller_state
SetControllerState(state) ==
    /\ Alive
    /\ obs.frame_call # "running"
    /\ state # controller.controller_state
    /\ controller' = set_controller_state(controller, state)
    /\ obs' = [ObsClear EXCEPT !.op = "set_buttons", !.value = state, !.result = "Ok",
                               !.write0 = FALSE, !.changed = TRUE]
    /\ UNCHANGED <<cpu_state, ppu_state, rom, build>>

(***************************************************************************)
(* Controller port: the host updates the buttons, strobes and reads $4016  *)
(***************************************************************************)
ButtonMasks == {\h00, \hFF, \hA5, \h5A, \h01, \h80, \h24, \hC6}

EmptyRom == [mirroring |-> "Horizontal", prg_rom |-> EmptyArray, prg_len |-> 0,
             chr_rom |-> EmptyArray, chr_len |-> 0]

InitCtl ==
    /\ cpu_state = CpuState_new
    /\ ppu_state = PpuState_new
    /\ controller = controller_new
    /\ rom = EmptyRom
    /\ build \in {"debug", "release"}
    /\ obs = ObsInit

NextCtl ==
    \/ \E v \in {0, 1, 2, 3} : BusWrite(CONTROLLER_ADDR, v)
    \/ BusRead(CONTROLLER_ADDR)
    \/ \E state \in ButtonMasks : SetControllerState(state)

SpecCtl == InitCtl /\ [][NextCtl]_vars

\* C10: after a write to $4016 with bit 0 clear and while the buttons are left
\* alone, the k-th read returns bit k-1 of the button mask for k = 1..8 (A, B,
\* Select, Start, Up, Down, Left, Right) and every later read returns 1.
C10_SerialReadout ==
    (obs.op = "bus_read" /\ obs.addr = CONTROLLER_ADDR /\ obs.write0)
        => obs.value = IF obs.reads <= 8
                       THEN BitAt(controller.controller_state, obs.reads - 1)
                       ELSE 1

\* all eight buttons were read in a row from a mixed mask and the port went on to 1s
C10_Witness ==
    /\ obs.op = "bus_read" /\ obs.addr = CONTROLLER_ADDR /\ obs.write0
    /\ obs.reads = 9
    /\ obs.value = 1
    /\ controller.controller_state = \hA5

\* C11: after a write to $4016 with bit 0 set and until the next write, every
\* read returns the A-button bit of the button mask as it is at the read, and
\* the shift position stays on A.
C11_StrobeHighReadsA ==
    (obs.op = "bus_read" /\ obs.addr = CONTROLLER_ADDR /\ obs.strobe_high)
        => /\ obs.value = BitAt(controller.controller_state, 0)
           /\ controller.cur_flag = 1

\* the third read in a row under a high strobe, after the buttons changed: A is down
C11_Witness ==
    /\ obs.op = "bus_read" /\ obs.addr = CONTROLLER_ADDR /\ obs.strobe_high
    /\ obs.changed
    /\ obs.reads = 3
    /\ obs.value = 1
    /\ controller.controller_state = \hA5

\* C12: after the strobe falls (a write with bit 0 set followed by a write with
\* bit 0 clear), the k-th of the eight following reads returns bit k-1 of the
\* button mask as it was at the write that cleared the strobe, whatever the host
\* does to the buttons between the reads.
C12_FallingEdgeFreezesButtons ==
    (obs.op = "bus_read" /\ obs.addr = CONTROLLER_ADDR /\ obs.fell /\ obs.reads <= 8)
        => obs.value = BitAt(obs.snapshot, obs.reads - 1)

(***************************************************************************)
(* Programs.  A program is a sequence of bytes placed in RAM from          *)
(* PROGRAM_COUNTER_INIT on, the NMI handler a sequence placed at           *)
(* HANDLER_ADDR; the cartridge holds the NMI vector.                       *)
(***************************************************************************)
RECURSIVE LoadBytes(_, _, _)
LoadBytes(ram, base, bytes) ==
    IF bytes = <<>> THEN ram
    ELSE LoadBytes(Put(ram, base, Head(bytes)), base + 1, Tail(bytes))

HANDLER_ADDR == \h700
NMI_VECTOR_INDEX == \h3FFA
PRG_BANK == \h4000

\* a one-bank cartridge whose NMI vector points at HANDLER_ADDR
VectorRom ==
    [mirroring |-> "Horizontal",
     prg_rom   |-> Put(Put(EmptyArray, NMI_VECTOR_INDEX, HANDLER_ADDR % 256),
                       NMI_VECTOR_INDEX + 1, HANDLER_ADDR \div 256),
     prg_len   |-> PRG_BANK,
     chr_rom   |-> EmptyArray,
     chr_len   |-> 0]

\* NOP; JMP $0600
ProgSpin == <<\hEA, \h4C, \h00, \h06>>
\* BRK; LDA #$80; STA $2000; JMP $0606
ProgEnable == <<\h00, \hA9, \h80, \h8D, \h00, \h20, \h4C, \h06, \h06>>
\* LDA #$80; STA $2000; LDA #$00; STA $2000; JMP $0600
ProgToggle == <<\hA9, \h80, \h8D, \h00, \h20, \hA9, \h00, \h8D, \h00, \h20,
                \h4C, \h00, \h06>>
\* LDA $2002; BPL -5; JMP $0600
ProgPoll == <<\hAD, \h02, \h20, \h10, \hFB, \h4C, \h00, \h06>>
\* NOP; NOP; an unassigned opcode byte
ProgBad == <<\hEA, \hEA, \h02>>
\* NOP; STA $8000
ProgRomWrite == <<\hEA, \h8D, \h00, \h80>>
\* PHP; PLA; RTI
HandlerReturn == <<\h08, \h68, \h40>>

Programs == {ProgSpin, ProgEnable, ProgToggle, ProgPoll, ProgBad, ProgRomWrite}

\* the CPU after construction with a program and the handler in RAM
CpuWith(program, sp) ==
    [CpuState_new EXCEPT
        !.ram = LoadBytes(LoadBytes(EmptyArray, PROGRAM_COUNTER_INIT, program),
                          HANDLER_ADDR, HandlerReturn),
        !.stack_pointer = sp]

\* the PPU somewhere in a frame
PpuAt(scanline, dot, status, ctrl) ==
    [PpuState_new EXCEPT !.cur_scanline = scanline, !.cycle_counter = dot,
                         !.ppustatus = status, !.ppuctrl = ctrl]

\* the last dots of the last visible scanline and of the last scanline of a frame
LateDots == {330, 338}
StackPointers == {STACK_POINTER_INIT, \h01}

InitNmi ==
    /\ \E program \in Programs, sp \in StackPointers :
           cpu_state = CpuWith(program, sp)
    /\ \E dot \in LateDots, ctrl \in {\h00, \h80} :
           \/ \E status \in {\h00, \h40} :
                  ppu_state = PpuAt(VBLANK_SCANLINE - 1, dot, status, ctrl)
           \/ \E status \in {\h80, \hC0} :
                  ppu_state = PpuAt(SCANLINES_PER_FRAME - 1, dot, status, ctrl)
    /\ controller = controller_new
    /\ rom = VectorRom
    /\ build \in {"debug", "release"}
    /\ obs = [ObsInit EXCEPT !.origin = Position(ppu_state)]

NextNmi == Step

SpecNmi == InitNmi /\ [][NextNmi]_vars

\* the word the cartridge holds at the NMI vector, $FFFA/$FFFB
NmiTarget ==
    LET i == (NMI_INTERRUPT.vector - PRG_ROM_START) % rom.prg_len
    IN  Get(rom.prg_rom, i) + 256 * Get(rom.prg_rom, i + 1)

\* a step that can latch a new NMI after the poll: it entered vblank or it stored
Relatched(o) == o.vblank_entry \/ o.opcode \in StoreOpcodes

C2_NmiEntry ==
    [][(obs'.op = "step" /\ obs'.serviced) =>
          /\ obs'.entry.pushed = <<cpu_state.program_counter \div 256,
                                   cpu_state.program_counter % 256,
                                   SetBit(cpu_state.status, BRK_BIT, FALSE)>>
          /\ obs'.entry.sp = (cpu_state.stack_pointer + 256 - 3) % 256
          /\ obs'.entry.status = SetBit(cpu_state.status, INT_DISABLE_BIT, TRUE)
          /\ obs'.start_pc = NmiTarget
          /\ ~obs'.entry.token]_vars

\* an NMI was serviced while B was set in P and with S wrapping below $00
C2_Witness ==
    /\ obs.op = "step" /\ obs.serviced
    /\ BitAt(obs.entry.status, BRK_BIT) = 1
    /\ BitAt(obs.entry.pushed[3], BRK_BIT) = 0
    /\ obs.entry.sp = \hFE

PPUCTRL == \h2000
PPUSTATUS == \h2002
PPUSCROLL == \h2005
PPUADDR == \h2006
PPUCTRL_MIRROR == \h3FF8

\* the CPU cycles left to the program when the host starts poking
BusCycles == 6

InitBus ==
    /\ cpu_state = [CpuWith(ProgSpin, STACK_POINTER_INIT)
                       EXCEPT !.cycle_counter = MaxCycles - BusCycles]
    /\ ppu_state = PpuAt(VBLANK_SCANLINE - 1, 338, \h00, \h00)
    /\ controller = controller_new
    /\ rom = VectorRom
    /\ build \in {"debug", "release"}
    /\ obs = [ObsInit EXCEPT !.origin = Position(ppu_state) - 3 * cpu_state.cycle_counter]

NextBus ==
    \/ Step
    \/ \E addr \in {PPUCTRL, PPUCTRL_MIRROR}, v \in {\h00, \h80} : BusWrite(addr, v)
    \/ BusWrite(PPUSCROLL, \h11)
    \/ BusWrite(PPUADDR, \hE1)
    \/ BusRead(PPUSTATUS)

SpecBus == InitBus /\ [][NextBus]_vars

\* C8: a write to PPUCTRL (at $2000 or a mirror) stores the byte and leaves an NMI
\* pending afterwards iff one was pending before or the write takes NMI-enable
\* from 0 to 1 while the vblank flag is set.
C8_CtrlWriteLatch ==
    [][(obs'.op = "bus_write" /\ obs'.addr \in {PPUCTRL, PPUCTRL_MIRROR}) =>
          /\ ppu_state'.ppuctrl = obs'.value
          /\ ppu_state'.nmi_interrupt_poll =
                 (\/ ppu_state.nmi_interrupt_poll
                  \/ /\ ~is_generate_nmi(ppu_state.ppuctrl)
                     /\ is_generate_nmi(obs'.value)
                     /\ is_vblank_started(ppu_state.ppustatus))]_vars

\* a write of $80 to PPUCTRL during vblank latched an NMI
C8_Witness ==
    /\ obs.op = "bus_write" /\ obs.addr = PPUCTRL /\ obs.value = \h80
    /\ obs.latched
    /\ is_vblank_started(ppu_state.ppustatus)

\* C9: a read of PPUSTATUS returns the status byte as it was, clears the vblank
\* flag and resets both write latches: with the latches reset, a write to $2005
\* sets the X scroll and a write to $2006 sets the (6-bit) high address byte.
C9_StatusRead ==
    [][/\ (obs'.op = "bus_read" /\ obs'.addr = PPUSTATUS) =>
             /\ obs'.value = ppu_state.ppustatus
             /\ ppu_state'.ppustatus = SetBit(ppu_state.ppustatus, VBLANK_STARTED_BIT, FALSE)
             /\ ppu_state'.ppuscroll.is_set_position_x
             /\ ppu_state'.ppuaddr.is_set_msb
       /\ (obs.op = "bus_read" /\ obs.addr = PPUSTATUS
           /\ obs'.op = "bus_write" /\ obs'.addr = PPUSCROLL) =>
             /\ ppu_state'.ppuscroll.cam_position_x = obs'.value
             /\ ppu_state'.ppuscroll.cam_position_y = ppu_state.ppuscroll.cam_position_y
       /\ (obs.op = "bus_read" /\ obs.addr = PPUSTATUS
           /\ obs'.op = "bus_write" /\ obs'.addr = PPUADDR) =>
             /\ ppu_state'.ppuaddr.msb = obs'.value % 64
             /\ ppu_state'.ppuaddr.lsb = ppu_state.ppuaddr.lsb]_vars

\* the status was read in vblank with both latches half-way through a pair
C9_Witness ==
    /\ obs.op = "bus_read" /\ obs.addr = PPUSTATUS
    /\ obs.value = \h80
    /\ ppu_state.ppustatus = \h00
    /\ ppu_state.ppuscroll.cam_position_x = \h11 /\ ppu_state.ppuscroll.cam_position_y = 0
    /\ ppu_state.ppuaddr.msb = \h21 /\ ppu_state.ppuaddr.lsb = 0
    /\ ppu_state.ppuscroll.is_set_position_x /\ ppu_state.ppuaddr.is_set_msb

(***************************************************************************)
(* PPU timing: programs stepped from positions all over the frame          *)
(***************************************************************************)
FrameScanlines == {0, 100, 239, 240, 241, 260, 261}
FrameDots == {0, 21, 335, 338, 340}
DOTS_PER_FRAME == SCANLINES_PER_FRAME * DOTS_PER_SCANLINE

InitFrame ==
    /\ \E program \in {ProgSpin, ProgEnable, ProgPoll} :
           cpu_state = CpuWith(program, STACK_POINTER_INIT)
    /\ \E scanline \in FrameScanlines, dot \in FrameDots, ctrl \in {\h00, \h80} :
           ppu_state = PpuAt(scanline, dot,
                             IF scanline >= VBLANK_SCANLINE THEN \h80 ELSE \h00, ctrl)
    /\ controller = controller_new
    /\ rom = VectorRom
    /\ build \in {"debug", "release"}
    /\ obs = [ObsInit EXCEPT !.origin = Position(ppu_state)]

NextFrame == Step

SpecFrame == InitFrame /\ [][NextFrame]_vars

\* the dots the PPU has gone through, frame wraps included
TotalDots(o, p) == o.frames * DOTS_PER_FRAME + Position(p)

ActionNES_next_ppu_frame ==
    /\ Alive
    /\ obs.frame_call # "running"
    /\ obs' = [ObsClear EXCEPT !.op = "next_ppu_frame", !.result = "panic"]
    /\ UNCHANGED <<cpu_state, ppu_state, controller, rom, build>>

\* the loop condition !(!prev_nmi && after_nmi), and the `?` on a failed step
FrameCallAfter(r) ==
    IF r.m.fault # "none" \/ ~r.ok THEN "failed"
    ELSE IF ~ppu_state.nmi_interrupt_poll /\ r.m.ppu.nmi_interrupt_poll THEN "returned"
    ELSE "running"

TraceIterationDone(r) ==
    /\ r.info.opcode \in ImpliedOpcodes \cup {"JMP", "Err"}
    /\ Install(r.m)
    /\ obs' = [ObsStep(r, "frame_iteration") EXCEPT !.frame_call = FrameCallAfter(r)]

TraceNes_next_ppu_frame ==
    /\ Alive
    /\ cpu_state.cycle_counter < MaxCycles
    /\ TraceIterationDone(nes_next_cpu_instruction(Machine))
    /\ UNCHANGED <<rom, build>>

InitTrace ==
    /\ \E program \in {ProgSpin, ProgBad} : cpu_state = CpuWith(program, STACK_POINTER_INIT)
    /\ \E dot \in LateDots, ctrl \in {\h00, \h80} :
           \/ ppu_state = PpuAt(VBLANK_SCANLINE - 1, dot, \h00, ctrl)
           \/ ppu_state = PpuAt(SCANLINES_PER_FRAME - 1, dot, \h80, ctrl)
    /\ controller = controller_new
    /\ rom = VectorRom
    /\ build \in {"debug", "release"}
    /\ obs = [ObsInit EXCEPT !.origin = Position(ppu_state)]

NextTrace == ActionNES_next_ppu_frame \/ TraceNes_next_ppu_frame

SpecTrace == InitTrace /\ [][NextTrace]_vars

\* C7: the 'advance one frame' operation returns exactly when the PPU signals
\* frame completion: after each instruction of the call, the call has returned
\* iff that instruction's PPU advance wrapped the frame, and the call itself
\* does not fail.
C7_FrameCallReturnsAtFrameEnd ==
    /\ obs.op = "frame_iteration" /\ obs.result = "Ok" =>
           ((obs.frame_call = "returned") <=> obs.new_frame)
    /\ obs.op = "next_ppu_frame" => obs.result = "Ok"

(***************************************************************************)
(* VRAM port: the host sets the address latch through $2006 and moves      *)
(* bytes through $2007.  obs.left meters the accesses of one exploration.  *)
(***************************************************************************)
PPUDATA == \h2007
MaxAccesses == 5
CHR_LEN == \h2000
ChrByte == \h77
AddrBytes == {\h20, \hFF}
DataBytes == {\h55}
SampleAddrs == {\h0000, \h2000, \h2020, \h23FF, \h2400, \h27E0, \h2805, \h2FFF,
                \h3000, \h3EFF, \h3F00, \h3FFF}

\* a cartridge with character ROM, as ROM::from builds it
ChrRom(mirroring) ==
    [EmptyRom EXCEPT !.mirroring = mirroring, !.chr_len = CHR_LEN,
                     !.chr_rom = Put(EmptyArray, 0, ChrByte)]

\* the PPU with its address latch at v, the read buffer holding byte
PpuLatched(v, ctrl, byte) ==
    [PpuState_new EXCEPT !.ppuaddr = [lsb |-> v % 256, msb |-> v \div 256, is_set_msb |-> TRUE],
                         !.ppuctrl = ctrl,
                         !.ppudata = byte]

InitVram ==
    /\ cpu_state = CpuState_new
    /\ \E v \in SampleAddrs, ctrl \in {\h00, \h04}, byte \in {0, ChrByte} :
           /\ ppu_state = PpuLatched(v, ctrl, byte)
           /\ obs = [ObsInit EXCEPT !.left = MaxAccesses, !.latch_start = v]
    /\ controller = controller_new
    /\ \E mirroring \in {"Horizontal", "Vertical"} : rom = ChrRom(mirroring)
    /\ build = "release"

NextVram ==
    \/ \E byte \in AddrBytes : obs.left > 0 /\ BusWrite(PPUADDR, byte)
    \/ \E byte \in DataBytes : obs.left > 0 /\ BusWrite(PPUDATA, byte)
    \/ obs.left > 0 /\ BusRead(PPUDATA)

SpecVram == InitVram /\ [][NextVram]_vars

\* a PPUDATA read made through the address latch set to an address of lo..hi
DataReadAfterLatch(lo, hi) ==
    /\ obs.op = "bus_read" /\ obs.addr = PPUDATA /\ obs.result = "Ok"
    /\ obs.latch_start \in lo..hi

\* C14: with the VRAM address latch set to v in 0x2000..=0x3EFF, the first PPUDATA
\* read returns the byte the read buffer held before and the second PPUDATA read
\* returns the byte stored at v.
C14_BufferedRead ==
    DataReadAfterLatch(\h2000, \h3EFF) =>
        /\ obs.since_latch = 1 => obs.value = obs.buffer
        /\ obs.since_latch = 2 => obs.value = Get(obs.vram, VramCell(obs.latch_start))

\* C15: a PPUDATA read made while the VRAM address latch is in 0x3F00..=0x3FFF
\* completes and returns the palette byte at that address in that same read.
C15_PaletteReadImmediate ==
    (obs.op = "bus_read" /\ obs.addr = PPUDATA /\ obs.latch_v \in \h3F00..\h3FFF) =>
        /\ obs.result = "Ok"
        /\ obs.value = Get(obs.palette, PaletteCell(obs.latch_v))

C17_WrittenByteRetained ==
    (obs.op = "bus_read" /\ obs.addr = PPUDATA /\ obs.result = "Ok"
        /\ obs.latch_v \in \h2000..\h2FFF) =>
        ppu_state.ppudata = Get(obs.vram, VramCell(obs.latch_v))

\* C18: a PPUADDR write flips which byte the next PPUADDR write sets, and a pair
\* of writes h then l that starts on a reset latch leaves the VRAM address at
\* ((h & 0x3F) << 8) | l.
C18_AddrLatchWrites ==
    [][(obs'.op = "bus_write" /\ obs'.addr = PPUADDR) =>
          /\ ppu_state'.ppuaddr.is_set_msb = ~ppu_state.ppuaddr.is_set_msb
          /\ obs'.wrote_high = ppu_state.ppuaddr.is_set_msb
          /\ (obs.op = "bus_write" /\ obs.addr = PPUADDR /\ obs.wrote_high) =>
                 PpuAddr_read(ppu_state'.ppuaddr) = (obs.value % 64) * 256 + obs'.value]_vars

\* the pair 0xFF, 0x20 was written: the address is 0x3F20
C18_Witness ==
    /\ obs.op = "bus_write" /\ obs.addr = PPUADDR /\ ~obs.wrote_high
    /\ obs.value = \h20
    /\ obs.latch_start = \h3F20
    /\ PpuAddr_read(ppu_state.ppuaddr) = \h3F20
    /\ ppu_state.ppuaddr.is_set_msb

\* C20: a PPU address in logical nametable n at offset o is kept in nametable
\* memory at p * 0x400 + o; Horizontal: p = 0 for n in {0, 1}, 1 for n in {2, 3};
\* Vertical: p = 0 for n in {0, 2}, 1 for n in {1, 3}.
C20_NametableMirroring ==
    (obs.op \in {"bus_read", "bus_write"} /\ obs.addr = PPUDATA /\ obs.result = "Ok"
        /\ obs.latch_v \in \h2000..\h2FFF) =>
        LET n == (obs.latch_v - \h2000) \div \h400
            o == (obs.latch_v - \h2000) % \h400
            p == IF rom.mirroring = "Horizontal"
                 THEN (CASE n = 0 -> 0 [] n = 1 -> 0 [] n = 2 -> 1 [] n = 3 -> 1)
                 ELSE (CASE n = 0 -> 0 [] n = 1 -> 1 [] n = 2 -> 0 [] n = 3 -> 1)
        IN  obs.cell = p * \h400 + o

\* under Vertical mirroring the last byte of nametable 3 is the last cell of memory
C20_Witness ==
    /\ obs.op = "bus_write" /\ obs.addr = PPUDATA /\ obs.result = "Ok"
    /\ rom.mirroring = "Vertical"
    /\ obs.latch_v = \h2FFF
    /\ obs.cell = \h7FF

(***************************************************************************)
(* Internal RAM: the host writes and reads RAM through its mirrors.         *)
(***************************************************************************)
RamAddrs == {\h0000, \h0800, \h1800, \h00FF, \h10FF, \h07FF, \h1FFF}
RamBytes == {\h11, \hEE}

InitRam ==
    /\ cpu_state = CpuState_new
    /\ ppu_state = PpuState_new
    /\ controller = controller_new
    /\ rom = EmptyRom
    /\ build \in {"debug", "release"}
    /\ obs = ObsInit

NextRam ==
    \/ \E a \in RamAddrs, v \in RamBytes : BusWrite(a, v)
    \/ \E a \in RamAddrs : BusRead(a)

SpecRam == InitRam /\ [][NextRam]_vars

\* C13: a read at an address of 0x0000..=0x1FFF returns the byte last written at
\* any address of that range congruent to it modulo 0x0800.
C13_RamMirroring ==
    (obs.op = "bus_read" /\ obs.addr <= \h1FFF) =>
        /\ obs.result = "Ok"
        /\ obs.value = Get(obs.written, obs.addr % \h800)

\* 0xEE written through one mirror of the last RAM byte is read through another
C13_Witness ==
    /\ obs.op = "bus_read" /\ obs.addr = \h07FF /\ obs.value = \hEE
    /\ Get(obs.written, \h7FF) = \hEE
    /\ Get(obs.written, \h0FF) = \h11

(***************************************************************************)
(* OAM DMA: the host fills RAM, sets OAMADDR and starts transfers through  *)
(* $4014.  obs.left meters the accesses of one exploration.                *)
(***************************************************************************)
OAMADDR == \h2003
MaxDmaOps == 5
DmaSources == {\h0000, \h18FF}
DmaPages == {\h00, \h18, \h07, \h20}
OamAddrs == {\h00, \hFE}

InitDma ==
    /\ cpu_state = CpuState_new
    /\ ppu_state = PpuState_new
    /\ controller = controller_new
    /\ rom = EmptyRom
    /\ build = "release"
    /\ obs = [ObsInit EXCEPT !.left = MaxDmaOps]

NextDma ==
    \/ \E a \in DmaSources, v \in RamBytes : obs.left > 0 /\ BusWrite(a, v)
    \/ \E v \in OamAddrs : obs.left > 0 /\ BusWrite(OAMADDR, v)
    \/ \E page \in DmaPages : obs.left > 0 /\ BusWrite(OAMDMA_ADDR, page)

SpecDma == InitDma /\ [][NextDma]_vars

RECURSIVE LoadSegments(_, _)
LoadSegments(ram, segments) ==
    IF segments = <<>> THEN ram
    ELSE LoadSegments(LoadBytes(ram, Head(segments).at, Head(segments).bytes),
                      Tail(segments))

Segment(at, bytes) == [at |-> at, bytes |-> bytes]

\* the CPU after construction with an image in RAM
CpuImage(segments) == [CpuState_new EXCEPT !.ram = LoadSegments(EmptyArray, segments)]

\* an NMI handler that starts with an unassigned opcode byte
HandlerBad == <<\h02>>

\* a PPU one instruction away from vblank, NMI generation enabled
PpuBeforeVblank == PpuAt(VBLANK_SCANLINE - 1, 338, \h00, \h80)

Scenario(segments, ppu, cartridge) ==
    [segments |-> segments, ppu |-> ppu, rom |-> cartridge]

ErrorScenarios ==
    {Scenario(<<Segment(PROGRAM_COUNTER_INIT, ProgBad),
                Segment(HANDLER_ADDR, HandlerReturn)>>, PpuState_new, VectorRom),
     Scenario(<<Segment(PROGRAM_COUNTER_INIT, ProgBad),
                Segment(HANDLER_ADDR, HandlerReturn)>>, PpuBeforeVblank, VectorRom),
     Scenario(<<Segment(PROGRAM_COUNTER_INIT, ProgSpin),
                Segment(HANDLER_ADDR, HandlerBad)>>, PpuBeforeVblank, VectorRom),
     Scenario(<<Segment(PROGRAM_COUNTER_INIT, ProgRomWrite)>>, PpuState_new, VectorRom)}

\* the opcode bytes of BPL, BMI, BVC, BVS, BCC, BCS, BNE, BEQ
BranchBytes == {\h10, \h30, \h50, \h70, \h90, \hB0, \hD0, \hF0}
\* operand bytes of a branch: 0, +6, +127, -128, -5, -1
BranchOffsets == {\h00, \h06, \h7F, \h80, \hFB, \hFF}
\* where a branch is placed in RAM: before the end of a page, at the bottom of
\* the address space, at the end of the RAM
BranchSites == {\h06F0, \h0000, \h07FE}
\* where a branch is placed in the cartridge, below the vectors
BRANCH_ROM_SITE == \hFFF8

\* nothing, or LDA #$C3; PHA; PLP, which sets N, V, Z and C
FlagPreludes == {<<>>, <<\hA9, \hC3, \h48, \h28>>}

\* the prelude, then JMP site
JumpTo(prelude, site) == prelude \o <<\h4C, site % 256, site \div 256>>

\* the cartridge with bytes placed at a CPU address of its program ROM
RomWith(site, bytes) ==
    [VectorRom EXCEPT
        !.prg_rom = LoadBytes(@, (site - PRG_ROM_START) % VectorRom.prg_len, bytes)]

BranchScenarios ==
    {Scenario(<<Segment(PROGRAM_COUNTER_INIT, JumpTo(prelude, site)),
                Segment(site, <<op, d>>)>>, PpuState_new, VectorRom) :
         prelude \in FlagPreludes, site \in BranchSites,
         op \in BranchBytes, d \in BranchOffsets}
    \cup
    {Scenario(<<Segment(PROGRAM_COUNTER_INIT, JumpTo(prelude, BRANCH_ROM_SITE))>>,
              PpuState_new, RomWith(BRANCH_ROM_SITE, <<op, d>>)) :
         prelude \in FlagPreludes, op \in BranchBytes, d \in BranchOffsets}

\* the zero page of the indexed-indirect scenarios: pointer bytes around both
\* ends of the page, a byte just above the page, and marks at the pointed cells
PointerSegments ==
    <<Segment(\h0000, <<\h03, \h04>>),
      Segment(\h000F, <<\h21, \h02, \h05>>),
      Segment(\h00FE, <<\h05, \h07, \h02>>),
      Segment(\h0307, <<\hA7>>),
      Segment(\h0403, <<\hB3>>),
      Segment(\h0207, <<\hEE>>),
      Segment(\h0705, <<\hC5>>)>>

\* operand bytes and X values of the indexed-indirect scenarios
PointerOperands == {\h00, \h10, \hFE, \hFF}
IndexValues == {\h00, \h01, \hFF}
STA_INDIRECT_X == \h81
LDA_INDIRECT_X == \hA1

\* LDX #x; LDA #$5A; STA (p,X)  and  LDX #x; LDA (p,X)
PointerScenarios ==
    {Scenario(PointerSegments
                  \o <<Segment(PROGRAM_COUNTER_INIT,
                               <<\hA2, x, \hA9, \h5A, STA_INDIRECT_X, p>>)>>,
              PpuState_new, VectorRom) : p \in PointerOperands, x \in IndexValues}
    \cup
    {Scenario(PointerSegments
                  \o <<Segment(PROGRAM_COUNTER_INIT, <<\hA2, x, LDA_INDIRECT_X, p>>)>>,
              PpuState_new, VectorRom) : p \in PointerOperands, x \in IndexValues}

CpuScenarios == ErrorScenarios \cup BranchScenarios \cup PointerScenarios

InitCpu ==
    /\ \E sc \in CpuScenarios :
           cpu_state = CpuImage(sc.segments) /\ ppu_state = sc.ppu /\ rom = sc.rom
    /\ controller = controller_new
    /\ build \in {"debug", "release"}
    /\ obs = [ObsInit EXCEPT !.origin = Position(ppu_state)]

\* NES::reset on the console: the body is todo!(), which aborts the program
Reset ==
    /\ Alive
    /\ Install(Panic(Machine))
    /\ obs' = [ObsClear EXCEPT !.op = "reset", !.result = Outcome(Panic(Machine), TRUE)]
    /\ UNCHANGED <<rom, build>>

NextCpu == Step \/ Reset

SpecCpu == InitCpu /\ [][NextCpu]_vars

\* the opcode bytes of the official 6502 instruction set
OfficialOpcodeBytes ==
    {\h00, \h01, \h05, \h06, \h08, \h09, \h0A, \h0D, \h0E, \h10, \h11, \h15,
     \h16, \h18, \h19, \h1D, \h1E, \h20, \h21, \h24, \h25, \h26, \h28, \h29,
     \h2A, \h2C, \h2D, \h2E, \h30, \h31, \h35, \h36, \h38, \h39, \h3D, \h3E,
     \h40, \h41, \h45, \h46, \h48, \h49, \h4A, \h4C, \h4D, \h4E, \h50, \h51,
     \h55, \h56, \h58, \h59, \h5D, \h5E, \h60, \h61, \h65, \h66, \h68, \h69,
     \h6A, \h6C, \h6D, \h6E, \h70, \h71, \h75, \h76, \h78, \h79, \h7D, \h7E,
     \h81, \h84, \h85, \h86, \h88, \h8A, \h8C, \h8D, \h8E, \h90, \h91, \h94,
     \h95, \h96, \h98, \h99, \h9A, \h9D, \hA0, \hA1, \hA2, \hA4, \hA5, \hA6,
     \hA8, \hA9, \hAA, \hAC, \hAD, \hAE, \hB0, \hB1, \hB4, \hB5, \hB6, \hB8,
     \hB9, \hBA, \hBC, \hBD, \hBE, \hC0, \hC1, \hC4, \hC5, \hC6, \hC8, \hC9,
     \hCA, \hCC, \hCD, \hCE, \hD0, \hD1, \hD5, \hD6, \hD8, \hD9, \hDD, \hDE,
     \hE0, \hE1, \hE4, \hE5, \hE6, \hE8, \hE9, \hEA, \hEC, \hED, \hEE, \hF0,
     \hF1, \hF5, \hF6, \hF8, \hF9, \hFD, \hFE}

\* the byte the CPU sees at address a of RAM or of the cartridge
MemByte(cpu, a) ==
    IF a < PRG_ROM_START THEN Get(cpu.ram, a % (RAM_MASK + 1))
    ELSE Get(rom.prg_rom, (a - PRG_ROM_START) % rom.prg_len)

\* the registers and memory of the CPU other than the program counter
CpuBesidesPc(cpu) == [cpu EXCEPT !.program_counter = 0]

\* a completed step fetched a byte outside the official set
FetchedUnofficial(o, cpu) ==
    /\ o.op = "step" /\ o.result # "panic"
    /\ MemByte(cpu, o.start_pc) \notin OfficialOpcodeBytes

\* C21: a step whose fetched opcode byte is not one of the 151 official bytes
\* returns an error instead of executing anything: the decoder accepts exactly
\* the official bytes, and such a step fails having moved only the program
\* counter past the byte (beside the NMI it may have serviced before the fetch).
C21_UnofficialOpcodeFails ==
    [][/\ \A b \in Byte : decode_opcode(b).ok <=> b \in OfficialOpcodeBytes
       /\ FetchedUnofficial(obs', cpu_state') =>
              /\ obs'.result = "Err" /\ obs'.opcode = "Err"
              /\ cpu_state'.program_counter = WrapAdd16(obs'.start_pc, 1)
              /\ cpu_state'.reg_a = cpu_state.reg_a
              /\ cpu_state'.reg_x = cpu_state.reg_x
              /\ cpu_state'.reg_y = cpu_state.reg_y
              /\ cpu_state'.cycle_counter = cpu_state.cycle_counter
              /\ ~obs'.serviced =>
                     /\ CpuBesidesPc(cpu_state') = CpuBesidesPc(cpu_state)
                     /\ ppu_state' = ppu_state /\ controller' = controller
       /\ obs'.op = "step" /\ obs'.result = "Ok" =>
              MemByte(cpu_state, obs'.start_pc) \in OfficialOpcodeBytes]_vars

\* a step failed on the unassigned byte 0x02 of the program
C21_Witness ==
    /\ obs.op = "step" /\ obs.result = "Err" /\ ~obs.serviced
    /\ MemByte(cpu_state, obs.start_pc) = \h02
    /\ cpu_state.program_counter = obs.start_pc + 1

\* the 16-bit operand that follows the opcode byte at address pc
AbsoluteOperand(cpu, pc) ==
    MemByte(cpu, WrapAdd16(pc, 1)) + 256 * MemByte(cpu, WrapAdd16(pc, 2))

STA_ABSOLUTE == \h8D

\* the step ran STA with an absolute operand inside the cartridge's program ROM
StoredToPrgRom(o, cpu) ==
    /\ o.op = "step"
    /\ MemByte(cpu, o.start_pc) = STA_ABSOLUTE
    /\ AbsoluteOperand(cpu, o.start_pc) \in PRG_ROM_START..PRG_ROM_END

\* C22: an instruction that writes to the cartridge's program ROM
\* (0x8000..=0xFFFF) makes the step return an error.
C22_RomWriteReturnsError ==
    StoredToPrgRom(obs, cpu_state) => obs.result = "Err"

\* what servicing an NMI from the CPU before leaves in the CPU after: three bytes
\* pushed (return address, status with B clear), S lowered by three, I set
NmiEntryKept(before, after) ==
    /\ after.stack_pointer = WrapSub8(before.stack_pointer, 3)
    /\ Get(after.ram, STACK_BASE + before.stack_pointer) = before.program_counter \div 256
    /\ Get(after.ram, STACK_BASE + WrapSub8(before.stack_pointer, 1))
           = before.program_counter % 256
    /\ Get(after.ram, STACK_BASE + WrapSub8(before.stack_pointer, 2))
           = SetBit(before.status, BRK_BIT, FALSE)
    /\ after.status = SetBit(before.status, INT_DISABLE_BIT, TRUE)

BranchStep(o, cpu) ==
    /\ o.op = "step" /\ o.result = "Ok"
    /\ MemByte(cpu, o.start_pc) \in BranchBytes

\* the address following the two bytes of the branch fetched at pc
AfterBranch(pc) == WrapAdd16(pc, 2)

\* the operand byte of the branch fetched at pc, as a signed 8-bit offset
SignedOffset(cpu, pc) ==
    LET b == MemByte(cpu, WrapAdd16(pc, 1))
    IN  IF b >= 128 THEN b - 256 ELSE b

\* the status bit a branch opcode byte tests: bits 7..6 of the byte select N, V, C, Z
TestedBit(byte) ==
    CASE byte \div 64 = 0 -> NEGATIVE_BIT
      [] byte \div 64 = 1 -> OVERFLOW_BIT
      [] byte \div 64 = 2 -> CARRY_BIT
      [] byte \div 64 = 3 -> ZERO_BIT

\* the branch is taken when the tested bit equals bit 5 of the opcode byte
ConditionHolds(byte, status) == BitAt(status, TestedBit(byte)) = BitAt(byte, 5)

\* where a branch fetched at pc with the status given leaves the program counter
BranchDestination(cpu, pc, status) ==
    IF ConditionHolds(MemByte(cpu, pc), status)
    THEN (AfterBranch(pc) + SignedOffset(cpu, pc) + 65536) % 65536
    ELSE AfterBranch(pc)

\* C24: for every branch instruction with signed 8-bit offset d, with PC the
\* address following the branch: taken, the program counter becomes
\* (PC + d) mod 0x10000; not taken, it is PC.
C24_BranchTarget ==
    [][BranchStep(obs', cpu_state) =>
           cpu_state'.program_counter
               = BranchDestination(cpu_state, obs'.start_pc, cpu_state.status)]_vars

\* a taken branch at the bottom of the address space wrapped backwards
C24_Witness ==
    /\ BranchStep(obs, cpu_state)
    /\ obs.start_pc = 0
    /\ SignedOffset(cpu_state, obs.start_pc) = -5
    /\ cpu_state.program_counter = \hFFFD

\* C25: a branch is charged 2 cycles when not taken, 3 when taken to the page of
\* the address following the branch, 4 when taken to an address whose high byte
\* differs from that address's.
C25_BranchCycles ==
    [][BranchStep(obs', cpu_state) =>
           /\ obs'.cycles =
                  IF ~ConditionHolds(MemByte(cpu_state, obs'.start_pc), cpu_state.status)
                  THEN 2
                  ELSE IF cpu_state'.program_counter \div 256
                              = AfterBranch(obs'.start_pc) \div 256
                  THEN 3 ELSE 4
           /\ cpu_state'.cycle_counter = cpu_state.cycle_counter + obs'.cycles]_vars

\* a branch taken across a page boundary was charged 4 cycles, another taken
\* branch 3 and a branch not taken 2
C25_Witness ==
    /\ BranchStep(obs, cpu_state)
    /\ obs.cycles = 4
    /\ obs.start_pc = \h06F0
    /\ cpu_state.program_counter = \h0771

(***************************************************************************)
(* Arithmetic.  The accumulator and the carry are drawn at the start; one  *)
(* exploration applies sbc once, to any operand byte.                      *)
(***************************************************************************)
InitAlu ==
    /\ \E a \in Byte, carry \in BOOLEAN :
           cpu_state = [CpuState_new EXCEPT
                           !.reg_a = a,
                           !.status = SetBit(@, CARRY_BIT, carry)]
    /\ ppu_state = PpuState_new
    /\ controller = controller_new
    /\ rom = VectorRom
    /\ build = "release"
    /\ obs = ObsInit

\* the console after an arithmetic function ran on the operand
AluDone(m, op, operand) ==
    /\ Install(m)
    /\ obs' = [ObsClear EXCEPT !.op = op, !.value = operand, !.result = Outcome(m, TRUE)]
    /\ UNCHANGED <<rom, build>>

Sbc == \E operand \in Byte :
           obs.op = "init" /\ AluDone(sbc(Machine, operand), "sbc", operand)

NextAlu == Sbc

SpecAlu == InitAlu /\ [][NextAlu]_vars

\* the accumulator and the flags N, V, Z, C of a CPU
ArithmeticResult(cpu) ==
    [a |-> cpu.reg_a,
     n |-> BitAt(cpu.status, NEGATIVE_BIT), v |-> BitAt(cpu.status, OVERFLOW_BIT),
     z |-> BitAt(cpu.status, ZERO_BIT),     c |-> BitAt(cpu.status, CARRY_BIT)]

\* C26: for all A, M in 0..=255 and both carries, SBC M yields the same
\* accumulator and the same N, V, Z, C as ADC (M xor 0xFF).
C26_SbcIsAdcOfComplement ==
    [][obs'.op = "sbc" =>
           ArithmeticResult(cpu_state')
               = ArithmeticResult(adc(Machine, 255 - obs'.value).cpu)]_vars

\* SBC #$01 from A = 0 with the carry set: a borrow, A = 0xFF, N set, C clear
C26_Witness ==
    /\ obs.op = "sbc" /\ obs.value = \h01
    /\ ArithmeticResult(cpu_state) = [a |-> \hFF, n |-> 1, v |-> 0, z |-> 0, c |-> 0]

\* the step ran the instruction with opcode byte `byte` to completion
RanOpcode(o, cpu, byte) ==
    /\ o.op = "step" /\ o.result = "Ok"
    /\ MemByte(cpu, o.start_pc) = byte

\* the address an (operand,X) instruction fetched at pc works on: the low byte
\* from zero-page address (p + x) mod 256, the high byte from (p + x + 1) mod 256
IndirectXTarget(cpu, pc) ==
    LET p == MemByte(cpu, WrapAdd16(pc, 1))
        x == cpu.reg_x
    IN  Get(cpu.ram, (p + x) % 256) + 256 * Get(cpu.ram, (p + x + 1) % 256)

\* C27: the indexed-indirect mode (operand p, X = x) takes the low byte of its
\* target from zero-page address (p + x) mod 256 and the high byte from
\* (p + x + 1) mod 256, wraps included: STA (p,X) stores A at exactly that
\* address and LDA (p,X) loads A from it.
C27_IndirectXPointer ==
    [][/\ RanOpcode(obs', cpu_state, STA_INDIRECT_X) =>
              /\ IndirectXTarget(cpu_state, obs'.start_pc) <= RAM_END
              /\ cpu_state'.ram
                     = Put(cpu_state.ram,
                           IndirectXTarget(cpu_state, obs'.start_pc) % (RAM_MASK + 1),
                           cpu_state.reg_a)
       /\ RanOpcode(obs', cpu_state, LDA_INDIRECT_X) =>
              cpu_state'.reg_a
                  = MemByte(cpu_state, IndirectXTarget(cpu_state, obs'.start_pc))]_vars

\* STA ($FF,X) with X = 0 took its pointer from 0x00FF and 0x0000 and stored at 0x0307
C27_Witness ==
    /\ RanOpcode(obs, cpu_state, STA_INDIRECT_X)
    /\ MemByte(cpu_state, obs.start_pc + 1) = \hFF
    /\ cpu_state.reg_x = 0
    /\ Get(cpu_state.ram, \h0307) = \h5A
    /\ Get(cpu_state.ram, \h0207) = \hEE

RESET_VECTOR == \hFFFC

\* the 16-bit word the cartridge holds at the reset vector
ResetTarget == MemByte(cpu_state, RESET_VECTOR) + 256 * MemByte(cpu_state, RESET_VECTOR + 1)

\* C28: after initialization, and after a reset, the CPU has the always-set
\* flag and the interrupt-disable flag set, S = 0xFD, the program counter equal
\* to the word stored at the reset vector 0xFFFC, and a cycle counter of 7.
C28_CpuAfterInitOrReset ==
    obs.op \in {"init", "reset"} =>
        /\ obs.result = "Ok"
        /\ BitAt(cpu_state.status, ALWAYS_BIT) = 1
        /\ BitAt(cpu_state.status, INT_DISABLE_BIT) = 1
        /\ cpu_state.stack_pointer = \hFD
        /\ cpu_state.program_counter = ResetTarget
        /\ cpu_state.cycle_counter = 7

(***************************************************************************)
(* Trace (nes.rs log_trace).  After an instruction the console builds a    *)
(* trace line: it peeks the instruction's bytes after the program counter  *)
(* of the state before the step, and the byte at the operand's address.    *)
(***************************************************************************)
\* the modes whose trace line shows the byte stored at the operand's address
PeekedModes == {"ZeroPage", "ZeroPageIndexX", "ZeroPageIndexY", "IndirectX",
                "IndirectY", "Absolute", "AbsoluteIndexX", "AbsoluteIndexY"}

\* the operand bytes of the hex dump, for an instruction of the length given
log_trace_arg(m, length, program_counter) ==
    CASE length = 1 -> m
      [] length = 2 -> peek_byte_at(Add16(m, program_counter, 1)).m
      [] length = 3 ->
            peek_two_bytes(
                peek_byte_at(Add16(
                    peek_byte_at(Add16(m, program_counter, 1)).m, program_counter, 2)).m,
                WrapAdd16(program_counter, 1)).m
      [] OTHER -> Panic(m)

\* the operand details of the line
log_trace_operand(m, mode, param) ==
    IF m.fault # "none" THEN m
    ELSE IF mode \in {"Implicit", "Accumulator", "Relative"} THEN m
    ELSE IF mode = "Immediate" /\ param.kind = "Value" THEN m
    ELSE IF mode \in PeekedModes /\ param.kind = "Address" THEN peek_byte(m, param.v).m
    ELSE IF mode \in {"IndirectJump", "AbsoluteJump"} /\ param.kind = "Address" THEN m
    ELSE Panic(m)                                    \* "Could not trace this argument"

log_trace(m, info, program_counter) ==
    log_trace_operand(log_trace_arg(m, info.length, program_counter), info.mode, info.param)

\* the step with its trace: an instruction that failed is not traced
traced(r, program_counter) ==
    IF r.ok /\ r.m.fault = "none"
    THEN [r EXCEPT !.m = log_trace(r.m, r.info, program_counter)]
    ELSE r

TracedStepDone(r, t) ==
    /\ r.info.opcode \in ModelledOpcodes \cup {"Err"}
    /\ Install(t.m)
    /\ obs' = [ObsStep(t, "traced_step") EXCEPT !.executed = r.ok /\ r.m.fault = "none"]

TracedStepOf(r) == TracedStepDone(r, traced(r, cpu_state.program_counter))

\* NES::next_cpu_instruction with the trace of the instruction
TracedStep ==
    /\ Alive
    /\ cpu_state.cycle_counter < MaxCycles
    /\ TracedStepOf(nes_next_cpu_instruction(Machine))
    /\ UNCHANGED <<rom, build>>

SpecLog == InitNmi /\ [][TracedStep]_vars

\* C29: tracing introduces no failure of its own: for any instruction the CPU
\* executes successfully, building its trace record (which peeks the byte at
\* the operand's address) completes without error or abort, whatever address
\* the operand targets.
C29_TraceNeverFails ==
    obs.op = "traced_step" /\ obs.executed => obs.result = "Ok"

(***************************************************************************)
(* The count-down loop, run from its load address to its BRK and beyond,   *)
(* with or without an NMI on the way.                                      *)
(***************************************************************************)
\* LDX #$08; DEX; STX $0200; CPX #$03; BNE $0602; STX $0201; BRK
ProgCountDown == <<\hA2, \h08, \hCA, \h8E, \h00, \h02, \hE0, \h03, \hD0, \hF8,
                   \h8E, \h01, \h02, \h00>>

\* the address of the program's last byte, its BRK
FINAL_BRK == PROGRAM_COUNTER_INIT + Len(ProgCountDown) - 1

MaxLoopCycles == 120

InitLoop ==
    /\ cpu_state = CpuImage(<<Segment(PROGRAM_COUNTER_INIT, ProgCountDown),
                             Segment(HANDLER_ADDR, HandlerReturn)>>)
    /\ \E dot \in LateDots \cup {0}, ctrl \in {\h00, \h80} :
           \/ ppu_state = PpuAt(0, dot, \h00, ctrl)
           \/ ppu_state = PpuAt(VBLANK_SCANLINE - 1, dot, \h00, ctrl)
           \/ ppu_state = PpuAt(VBLANK_SCANLINE - 2, dot, \h00, ctrl)
    /\ controller = controller_new
    /\ rom = VectorRom
    /\ build \in {"debug", "release"}
    /\ obs = [ObsInit EXCEPT !.origin = Position(ppu_state)]

\* NES::next_cpu_instruction on the console, while the program runs
LoopStep ==
    /\ Alive
    /\ cpu_state.cycle_counter < MaxLoopCycles
    /\ StepDone(nes_next_cpu_instruction(Machine), "step")
    /\ UNCHANGED <<rom, build>>

\* the step can be taken: ENABLED <<LoopStep>>_vars, read off the guard of LoopStep
LoopRunning == Alive /\ cpu_state.cycle_counter < MaxLoopCycles

\* the caller keeps stepping: weak fairness of LoopStep, with its enabling
\* condition written out
LoopFairness == <>[]LoopRunning => []<><<LoopStep>>_vars

SpecLoop == InitLoop /\ [][LoopStep]_vars /\ LoopFairness

\* the step just run is the program's final BRK and the loop has counted X down to 3
ReachedFinalBrk ==
    /\ obs.op = "step" /\ obs.result = "Ok"
    /\ obs.opcode = "BRK" /\ obs.start_pc = FINAL_BRK
    /\ cpu_state.reg_x = \h03
    /\ Get(cpu_state.ram, \h0200) = \h03
    /\ Get(cpu_state.ram, \h0201) = \h03
    /\ BitAt(cpu_state.status, ZERO_BIT) = 1
    /\ BitAt(cpu_state.status, CARRY_BIT) = 1

\* C30: the count-down loop DEX / CPX #3 / BNE back ends exactly when X first
\* equals 3: run from its load address, the program reaches its final BRK after
\* finitely many steps with X = 0x03, memory 0x0200 = 0x03 and 0x0201 = 0x03,
\* and the flags Z and C set; the loop's BNE is taken while X differs from 3.
C30_CountDownTerminates ==
    /\ <>ReachedFinalBrk
    /\ [](obs.op = "step" /\ obs.opcode = "BNE" /\ obs.result = "Ok" =>
              (cpu_state.program_counter = FINAL_BRK - 3) = (cpu_state.reg_x = \h03))

\* the final BRK was reached after an NMI was serviced on the way
C30_Witness ==
    /\ ReachedFinalBrk
    /\ Get(cpu_state.ram, STACK_BASE + STACK_POINTER_INIT) = PROGRAM_COUNTER_INIT \div 256

(***************************************************************************)
(* Subroutines.  The console starts with LDX #s; TXS; JMP site in RAM, a   *)
(* JSR at the site and a subroutine body at SUBROUTINE_ADDR.               *)
(***************************************************************************)
SUBROUTINE_ADDR == \h0300
JSR_ABSOLUTE == \h20
RTS_IMPLIED == \h60

\* where the JSR is placed in RAM: inside a page, with its last byte at the end
\* of a page, with its last byte at the end of the RAM
CallSites == {\h0610, \h06FD, \h07FD}
\* where the JSR is placed in the cartridge: its last byte at the top of memory
CALL_ROM_SITE == \hFFFD
\* the stack pointer the JSR starts with
CallStacks == {\h00, \h01, \h80, \hFF}

\* RTS; PHA, PLA, RTS; PHA, RTS (one byte deeper); PLA, PLA, PHA, PHA, RTS (the
\* return address overwritten with its own high byte)
SubroutineBodies ==
    {<<RTS_IMPLIED>>, <<\h48, \h68, RTS_IMPLIED>>, <<\h48, RTS_IMPLIED>>,
     <<\h68, \h68, \h48, \h48, RTS_IMPLIED>>}

\* LDX #s; TXS; JMP site
CallPrelude(s, site) == JumpTo(<<\hA2, s, \h9A>>, site)

CallBytes == <<JSR_ABSOLUTE, SUBROUTINE_ADDR % 256, SUBROUTINE_ADDR \div 256>>

CallScenarios ==
    {Scenario(<<Segment(PROGRAM_COUNTER_INIT, CallPrelude(s, site)),
                Segment(site, CallBytes),
                Segment(SUBROUTINE_ADDR, body)>>, PpuState_new, VectorRom) :
         s \in CallStacks, site \in CallSites, body \in SubroutineBodies}
    \cup
    {Scenario(<<Segment(PROGRAM_COUNTER_INIT, CallPrelude(s, CALL_ROM_SITE)),
                Segment(SUBROUTINE_ADDR, body)>>,
              PpuState_new, RomWith(CALL_ROM_SITE, CallBytes)) :
         s \in CallStacks, body \in SubroutineBodies}

InitSub ==
    /\ \E sc \in CallScenarios :
           cpu_state = CpuImage(sc.segments) /\ ppu_state = sc.ppu /\ rom = sc.rom
    /\ controller = controller_new
    /\ build \in {"debug", "release"}
    /\ obs = [ObsInit EXCEPT !.origin = Position(ppu_state)]

SpecSub == InitSub /\ [][Step]_vars

\* the address of the last byte of the three-byte instruction at site
LastByteOf(site) == WrapAdd16(site, 2)

\* the cell of the stack page the stack pointer s designates
StackCell(cpu, s) == Get(cpu.ram, STACK_BASE + s)

\* the return address of the last JSR is in the two cells that JSR pushed to, and
\* the stack pointer is two below the one that JSR started with
AtCallDepth(cpu, call) ==
    /\ call.made
    /\ cpu.stack_pointer = WrapSub8(call.sp, 2)
    /\ StackCell(cpu, call.sp) = LastByteOf(call.site) \div 256
    /\ StackCell(cpu, WrapSub8(call.sp, 1)) = LastByteOf(call.site) % 256

\* what a completed JSR did: the call recorded, the address of its last byte in
\* the cells at S and S - 1, S two lower, the program counter at its operand
JsrPushes ==
    RanOpcode(obs', cpu_state, JSR_ABSOLUTE) =>
        /\ obs'.call = [made |-> TRUE, site |-> obs'.start_pc,
                        sp |-> cpu_state.stack_pointer]
        /\ AtCallDepth(cpu_state', obs'.call)
        /\ cpu_state'.program_counter = AbsoluteOperand(cpu_state, obs'.start_pc)

\* what a completed RTS did when it started at the depth the last JSR left
RtsReturns ==
    RanOpcode(obs', cpu_state, RTS_IMPLIED) /\ AtCallDepth(cpu_state, obs.call) =>
        /\ cpu_state'.program_counter = WrapAdd16(obs.call.site, 3)
        /\ cpu_state'.stack_pointer = obs.call.sp

\* C31: JSR pushes the address of its own last byte, high byte first and then
\* low byte, and jumps to its operand; an RTS executed with the stack at the depth
\* that JSR left it continues at the instruction immediately after the JSR, with
\* S restored to its value before the JSR; for every JSR address and starting S.
C31_JsrRtsRoundTrip == [][JsrPushes /\ RtsReturns]_vars

\* a JSR whose last byte is the last byte of the RAM, made with S = 0x01 so that
\* its pushes wrap around the stack page, was returned from: to 0x0800, S = 0x01
C31_Witness ==
    /\ RanOpcode(obs, cpu_state, RTS_IMPLIED)
    /\ obs.call = [made |-> TRUE, site |-> \h07FD, sp |-> \h01]
    /\ cpu_state.program_counter = \h0800
    /\ cpu_state.stack_pointer = \h01
    /\ StackCell(cpu_state, \h01) = \h07
    /\ StackCell(cpu_state, \h00) = \hFF

(***************************************************************************)
(* The two-write registers.  The host writes PPUSCROLL and PPUADDR and     *)
(* reads PPUSTATUS on a console just constructed.                          *)
(***************************************************************************)
ToggleBytes == {\h12, \h25}

InitToggle ==
    /\ cpu_state = CpuState_new
    /\ ppu_state = PpuState_new
    /\ controller = controller_new
    /\ rom = EmptyRom
    /\ build = "release"
    /\ obs = [ObsInit EXCEPT !.left = MaxAccesses]

NextToggle ==
    \/ \E byte \in ToggleBytes : obs.left > 0 /\ BusWrite(PPUSCROLL, byte)
    \/ \E byte \in ToggleBytes : obs.left > 0 /\ BusWrite(PPUADDR, byte)
    \/ obs.left > 0 /\ BusRead(PPUSTATUS)

SpecToggle == InitToggle /\ [][NextToggle]_vars

\* a write of value to the register at addr was treated as a second write: to
\* PPUADDR it replaced the low byte of the address, to PPUSCROLL the Y position
TreatedAsSecond(addr, value) ==
    IF addr = PPUADDR
    THEN /\ ppu_state'.ppuaddr.lsb = value
         /\ ppu_state'.ppuaddr.msb = ppu_state.ppuaddr.msb
    ELSE /\ ppu_state'.ppuscroll.cam_position_y = value
         /\ ppu_state'.ppuscroll.cam_position_x = ppu_state.ppuscroll.cam_position_x

\* the last operation was the single write to one of the two registers since the
\* toggle was reset, and this one is a write to the other register
WriteToOtherRegister ==
    /\ obs.op = "bus_write" /\ obs.toggle_writes = 1
    /\ obs'.op = "bus_write" /\ obs'.result = "Ok"
    /\ {obs.addr, obs'.addr} = {PPUSCROLL, PPUADDR}

\* C32: PPUADDR and PPUSCROLL share one first/second write toggle: a single write
\* to either register makes the next write to the other register be treated as a
\* second write.
C32_SharedWriteToggle ==
    [][WriteToOtherRegister => TreatedAsSecond(obs'.addr, obs'.value)]_vars

(***************************************************************************)
(* PPU counters.  The dot counter grows by three dots per CPU cycle of an  *)
(* instruction; a counter update then moves the PPU to the next scanline.  *)
(* The host reads PPUSTATUS in between.                                    *)
(***************************************************************************)
CounterScanlines == {0, 5, VBLANK_SCANLINE - 2, VBLANK_SCANLINE - 1, VBLANK_SCANLINE,
                     SCANLINES_PER_FRAME - 1}
CounterDots == {0, 250, 338}
\* the y and x bytes of OAM entry 0
SpriteRows == {5, VBLANK_SCANLINE - 2}
SpriteColumns == {0, 255}
SHOW_SPRITES == \h10
\* the dots of a two-cycle and of a seven-cycle instruction
InstructionDots == {6, 21}

\* the PPU at a scanline and dot, sprite 0 at row y and column x
PpuWithSprite(scanline, dot, status, mask, y, x) ==
    [PpuAt(scanline, dot, status, \h00) EXCEPT
        !.ppumask = mask,
        !.oam_data = Put(Put(EmptyArray, 0, y), 3, x)]

InitPpu ==
    /\ cpu_state = CpuState_new
    /\ \E scanline \in CounterScanlines, dot \in CounterDots, mask \in {\h00, SHOW_SPRITES},
          y \in SpriteRows, x \in SpriteColumns, seen \in BOOLEAN :
           ppu_state = PpuWithSprite(scanline, dot,
                                     IF scanline >= VBLANK_SCANLINE /\ ~seen
                                     THEN \h80 ELSE \h00,
                                     mask, y, x)
    /\ controller = controller_new
    /\ rom = EmptyRom
    /\ build = "release"
    /\ obs = [ObsInit EXCEPT !.left = MaxAccesses, !.origin = Position(ppu_state)]

\* the PPU part of increment_cycle_counters for an instruction of dots / 3 cycles
PpuAdvance(dots) ==
    /\ Alive /\ obs.left > 0
    /\ ppu_state' = [ppu_state EXCEPT !.cycle_counter = @ + dots]
    /\ obs' = [ObsClear EXCEPT !.op = "ppu_advance", !.result = "Ok"]
    /\ UNCHANGED <<cpu_state, controller, rom, build>>

\* PpuAction::update_ppu_and_check_for_new_frame on the console's PPU
PpuUpdate ==
    /\ Alive /\ obs.left > 0
    /\ ppu_state' = update_ppu_and_check_for_new_frame(ppu_state).ppu
    /\ obs' = [ObsClear EXCEPT
                  !.op = "ppu_update", !.result = "Ok",
                  !.new_frame = update_ppu_and_check_for_new_frame(ppu_state).new_frame]
    /\ UNCHANGED <<cpu_state, controller, rom, build>>

NextPpu ==
    \/ \E dots \in InstructionDots : PpuAdvance(dots)
    \/ PpuUpdate
    \/ obs.left > 0 /\ BusRead(PPUSTATUS)

SpecPpu == InitPpu /\ [][NextPpu]_vars

SpriteZeroHit(p) == BitAt(p.ppustatus, SPRITE_ZERO_HIT_BIT) = 1

\* C33: during a PPU counter update the sprite-zero-hit flag is set only if sprite
\* rendering is enabled, the current scanline equals the y byte of OAM entry 0,
\* and the live dot equals the x byte of OAM entry 0.
C33_SpriteZeroHitAtDot ==
    [][(obs'.op = "ppu_update" /\ ~SpriteZeroHit(ppu_state) /\ SpriteZeroHit(ppu_state')) =>
           /\ is_show_sprites(ppu_state.ppumask)
           /\ ppu_state.cur_scanline = Get(ppu_state.oam_data, 0)
           /\ ppu_state.cycle_counter = Get(ppu_state.oam_data, 3)]_vars

VblankFlag(p) == is_vblank_started(p.ppustatus)

\* C37: whenever the PPU vblank status flag is set, the scanline counter is in
\* 241..=261.
C37_VblankOnlyInVblankLines ==
    VblankFlag(ppu_state) => ppu_state.cur_scanline \in 241..261

\* a counter update has taken a PPU that started in scanline 240 into scanline
\* 241 and set the flag
C37_Witness ==
    /\ obs.op = "ppu_update"
    /\ VblankFlag(ppu_state)
    /\ ppu_state.cur_scanline = 241
    /\ obs.origin \div DOTS_PER_SCANLINE = 240

(***************************************************************************)
(* Index registers.  The console starts with LDY #y; LDX #x and then DEY   *)
(* and INY, in either order, in RAM.                                       *)
(***************************************************************************)
DEY_IMPLIED == \h88
INY_IMPLIED == \hC8
IndexXValues == {\h00, \h80, \hFF}

InitIndex ==
    /\ \E y \in Byte, x \in IndexXValues,
          tail \in {<<DEY_IMPLIED, INY_IMPLIED>>, <<INY_IMPLIED, DEY_IMPLIED>>} :
           cpu_state = CpuImage(<<Segment(PROGRAM_COUNTER_INIT,
                                          <<\hA0, y, \hA2, x>> \o tail)>>)
    /\ ppu_state = PpuState_new
    /\ controller = controller_new
    /\ rom = VectorRom
    /\ build \in {"debug", "release"}
    /\ obs = [ObsInit EXCEPT !.origin = Position(ppu_state)]

SpecIndex == InitIndex /\ [][Step]_vars

\* the status bits other than N and Z
BesidesNZ(status) == SetBit(SetBit(status, NEGATIVE_BIT, FALSE), ZERO_BIT, FALSE)

\* the CPU registers after an instruction that left y in Y: X and A as before, N
\* and Z those of y, the other flags as before
IndexYUpdated(y) ==
    /\ cpu_state'.reg_y = y
    /\ cpu_state'.reg_x = cpu_state.reg_x
    /\ cpu_state'.reg_a = cpu_state.reg_a
    /\ BitAt(cpu_state'.status, NEGATIVE_BIT) = y \div 128
    /\ (BitAt(cpu_state'.status, ZERO_BIT) = 1) = (y = 0)
    /\ BesidesNZ(cpu_state'.status) = BesidesNZ(cpu_state.status)

DeyDone == RanOpcode(obs', cpu_state, DEY_IMPLIED) => IndexYUpdated((cpu_state.reg_y + 255) % 256)

InyDone == RanOpcode(obs', cpu_state, INY_IMPLIED) => IndexYUpdated((cpu_state.reg_y + 1) % 256)

\* C34: DEY and INY compute the new Y from the current Y (Y - 1 and Y + 1 modulo
\* 256), leave X unchanged, and set N and Z from the new Y.
C34_DeyInyUseY == [][DeyDone /\ InyDone]_vars

\* DEY ran with Y = 0 and X = 0x80: Y is 0xFF, N is set, Z is clear, X is 0x80
C34_Witness ==
    /\ RanOpcode(obs, cpu_state, DEY_IMPLIED)
    /\ MemByte(cpu_state, \h0601) = \h00
    /\ obs.start_pc = \h0604
    /\ cpu_state.reg_y = \hFF
    /\ cpu_state.reg_x = \h80
    /\ BitAt(cpu_state.status, NEGATIVE_BIT) = 1
    /\ BitAt(cpu_state.status, ZERO_BIT) = 0

(***************************************************************************)
(* Status register.  The console starts with LDA #b; PHA and then PLP or   *)
(* RTI in RAM, for every byte b.                                           *)
(***************************************************************************)
PLP_IMPLIED == \h28
RTI_IMPLIED == \h40

InitStatus ==
    /\ \E b \in Byte, pull \in {PLP_IMPLIED, RTI_IMPLIED} :
           cpu_state = CpuImage(<<Segment(PROGRAM_COUNTER_INIT, <<\hA9, b, \h48, pull>>)>>)
    /\ ppu_state = PpuState_new
    /\ controller = controller_new
    /\ rom = VectorRom
    /\ build \in {"debug", "release"}
    /\ obs = [ObsInit EXCEPT !.origin = Position(ppu_state)]

SpecStatus == InitStatus /\ [][Step]_vars

\* C35: after every successfully executed instruction, for any program and any
\* stack contents (PLP and RTI pulling arbitrary bytes included), the always-set
\* bit (bit 5) of the status register P is 1.
C35_AlwaysBitSet ==
    (obs.op = "step" /\ obs.result = "Ok") => BitAt(cpu_state.status, ALWAYS_BIT) = 1

\* PLP pulled the byte 0x10 (B set, bit 5 clear): P is 0x20
C35_Witness ==
    /\ RanOpcode(obs, cpu_state, PLP_IMPLIED)
    /\ MemByte(cpu_state, \h0601) = \h10
    /\ StackCell(cpu_state, cpu_state.stack_pointer) = \h10
    /\ cpu_state.status = \h20

\* the stack pointer is three below the one the last NMI was serviced at, and
\* the three cells above it hold the bytes the service pushed
AtServiceDepth(cpu, nmi) ==
    /\ nmi.taken
    /\ cpu.stack_pointer = WrapSub8(nmi.sp, 3)
    /\ <<StackCell(cpu, nmi.sp), StackCell(cpu, WrapSub8(nmi.sp, 1)),
         StackCell(cpu, WrapSub8(nmi.sp, 2))>> = nmi.pushed

\* the step ran RTI, without servicing an NMI first
RtiStep == RanOpcode(obs', cpu_state, RTI_IMPLIED) /\ ~obs'.serviced

\* C36: if an NMI is serviced when PC = p, S = s and P = f, and the handler later
\* executes RTI with the stack at the depth the service left it, then after the
\* RTI PC = p, S = s, and P equals f with the break bit cleared and the
\* always-set bit set.
C36_NmiRtiRoundTrip ==
    [][(RtiStep /\ AtServiceDepth(cpu_state, obs.nmi)) =>
           /\ cpu_state'.program_counter = obs.nmi.pc
           /\ cpu_state'.stack_pointer = obs.nmi.sp
           /\ cpu_state'.status
                  = SetBit(SetBit(obs.nmi.status, BRK_BIT, FALSE), ALWAYS_BIT, TRUE)]_vars

\* the handler returned from an NMI serviced with B set in P and S = 0x01: the
\* pulls wrapped around the stack page, B is clear
C36_Witness ==
    /\ RanOpcode(obs, cpu_state, RTI_IMPLIED)
    /\ obs.nmi.taken /\ obs.nmi.sp = \h01
    /\ BitAt(obs.nmi.status, BRK_BIT) = 1
    /\ cpu_state.program_counter = obs.nmi.pc
    /\ cpu_state.stack_pointer = \h01
    /\ BitAt(cpu_state.status, BRK_BIT) = 0

(***************************************************************************)
(* Extra cycles.  A prelude leaves the page-cross and branch latches of    *)
(* the CPU in one of their four states and ends at SUBJECT_ADDR, where the *)
(* instructions under study are.                                           *)
(***************************************************************************)
SUBJECT_ADDR == \h0684
DETOUR_ADDR == \h0700

\* JMP subject (both latches clear);
\* LDX #$FF; LDA $06F0,X; JMP subject (page cross set);
\* LDA #$00; BEQ +0; JMP subject (branch set);
\* JMP detour (where LDA #$00; BEQ -128 is: both set)
LatchPreludes ==
    {JumpTo(<<>>, SUBJECT_ADDR),
     JumpTo(<<\hA2, \hFF, \hBD, \hF0, \h06>>, SUBJECT_ADDR),
     JumpTo(<<\hA9, \h00, \hF0, \h00>>, SUBJECT_ADDR),
     JumpTo(<<>>, DETOUR_ADDR)}

Detour == <<\hA9, \h00, \hF0, \h80>>

\* BEQ +2; BNE +2.  BNE +2; BEQ +127 (to the next page).  LDA $06F0,X; BNE +2.
\* LDY #$10; LDA ($10),Y; BEQ +2.  LDY #$10; LDA $06F8,Y; NOP.
\* NOP; STA $0300,X; BNE +2.
Subjects ==
    {<<\hF0, \h02, \hD0, \h02>>,
     <<\hD0, \h02, \hF0, \h7F>>,
     <<\hBD, \hF0, \h06, \hD0, \h02>>,
     <<\hA0, \h10, \hB1, \h10, \hF0, \h02>>,
     <<\hA0, \h10, \hB9, \hF8, \h06, \hEA>>,
     <<\hEA, \h9D, \h00, \h03, \hD0, \h02>>}

\* the zero-page pointer of LDA ($10),Y: 0x06F8, or 0x0310
SubjectPointers == {<<\hF8, \h06>>, <<\h10, \h03>>}

InitCycles ==
    /\ \E prelude \in LatchPreludes, subject \in Subjects, pointer \in SubjectPointers :
           cpu_state = CpuImage(<<Segment(PROGRAM_COUNTER_INIT, prelude),
                                  Segment(DETOUR_ADDR, Detour),
                                  Segment(SUBJECT_ADDR, subject),
                                  Segment(\h0010, pointer)>>)
    /\ ppu_state = PpuState_new
    /\ controller = controller_new
    /\ rom = VectorRom
    /\ build \in {"debug", "release"}
    /\ obs = [ObsInit EXCEPT !.origin = Position(ppu_state)]

SpecCycles == InitCycles /\ [][Step]_vars

\* the cycles the step would charge had it started with the latches at p and b
CyclesFrom(page_cross, branched) ==
    next_cpu_instruction(
        [Machine EXCEPT !.cpu.page_cross_flag = page_cross,
                        !.cpu.branch_flag = branched]).info.cycles

\* C38: the extra cycles charged to an instruction depend only on that
\* instruction's own operand fetch and branch outcome: page-cross and
\* branch-taken flags left over from earlier instructions never change the cycle
\* count of a later instruction.
C38_NoStaleExtraCycles ==
    [][(obs'.op = "step" /\ obs'.result = "Ok") =>
           \A page_cross, branched \in BOOLEAN :
               CyclesFrom(page_cross, branched) = obs'.cycles]_vars

\* a branch not taken ran with both latches left set: two cycles
C38_Witness ==
    /\ obs.op = "step" /\ obs.result = "Ok"
    /\ obs.opcode = "BNE" /\ obs.cycles = 2
    /\ obs.start_pc >= SUBJECT_ADDR /\ obs.start_pc < DETOUR_ADDR
    /\ cpu_state.page_cross_flag /\ ~cpu_state.branch_flag
    /\ MemByte(cpu_state, PROGRAM_COUNTER_INIT + 1) = DETOUR_ADDR % 256

\* the step serviced an NMI and then ran an instruction to completion
ServicedStep == obs'.op = "step" /\ obs'.serviced /\ obs'.result = "Ok"

\* the instruction at the NMI vector's target, as the decoder reads it
HandlerEntry == decode_opcode(MemByte(cpu_state, NmiTarget))

PortWrite(o) == o.op = "bus_write" /\ o.addr = CONTROLLER_ADDR /\ o.result = "Ok"

\* the operation is the first read of the controller port since the last write
FirstReadSinceWrite(o) ==
    /\ o.op = "bus_read" /\ o.addr = CONTROLLER_ADDR /\ o.result = "Ok"
    /\ o.port_written /\ o.reads = 1

\* C40: any write to the controller port, whatever its value and whatever the
\* current strobe state, restarts the read sequence, so that the next read
\* reports button A.
C40_WriteRestartsReadout ==
    [][/\ PortWrite(obs') => controller'.cur_flag = 1
       /\ FirstReadSinceWrite(obs') =>
              obs'.value = BitAt(controller.controller_state, 0)]_vars

\* the read that follows a write with bit 0 clear, the buttons changed in
\* between to A alone, returned 1 and moved the shift position on to B
C40_Witness ==
    /\ FirstReadSinceWrite(obs)
    /\ controller.controller_state = \h01
    /\ obs.value = 1
    /\ ~controller.strobe /\ controller.cur_flag = 2
    /\ ~obs.write0
====
